---------------------------- MODULE Spec2Model ----------------------------
(***************************************************************************)
(* A model of the 32-bit CPU emulator: the two-pass assembler              *)
(* (src/src/main.c, src/src/parser.c), the validation predicates           *)
(* (src/src/validation.c), the processor state (src/src/cpu.c) and the     *)
(* fetch-decode-execute loop (src/src/cpu_exec.c).                         *)
(*                                                                         *)
(* A source line is a record of the tokens strtok() yields for it: an      *)
(* optional label (the first token without its ':'), the mnemonic and up   *)
(* to two operand tokens.  An operand token is a sequence of characters,   *)
(* so that the parsers (strtol, parse_register, ...) are computed on the   *)
(* text as the C code computes them.  Memory is the array ram->cells, held *)
(* as a function on the cells written so far (ram_init zeroes the rest).   *)
(***************************************************************************)
EXTENDS Integers, Sequences, FiniteSets, TLC

(***************************************************************************)
(* Program constants.                                                      *)
(***************************************************************************)
RAM_SIZE == 65536
MAX_REGISTERS == 8
MAX_ADDRESS_REGISTERS == 8
MAX_LABELS == 256
FAILURE == -1

ISA_LOADI == 1
ISA_LOADA == 2
ISA_LOADM == 3
ISA_STOREM == 4
ISA_ADD == 5
ISA_SUB == 6
ISA_MLP == 7
ISA_DIV == 8
ISA_AND == 9
ISA_OR == 10
ISA_XOR == 11
ISA_JMP == 12
ISA_JZ == 13
ISA_JNZ == 14
ISA_CMP == 15
ISA_HALT == 255

ADDR_REGISTER == 0
ADDR_LITERAL == 1
OPERAND_REGISTER == 0
OPERAND_NUMERIC == 1

(***************************************************************************)
(* Machine integers.  A C integer (uint32_t, int, long) is held as a pair  *)
(* <<hi, lo>> standing for hi * 65536 + lo with lo in 0..65535, because    *)
(* a 32-bit word does not fit a number of the model checker.  uint32_t     *)
(* values have hi in 0..65535, int values have hi in -32768..32767.        *)
(***************************************************************************)
HalfWord == 256 * 256

N(n) == << n \div HalfWord, n % HalfWord >>

Plus(x, y) ==
    LET l == x[2] + y[2] IN << x[1] + y[1] + (l \div HalfWord), l % HalfWord >>

Minus(x, y) ==
    LET l == x[2] - y[2] IN << x[1] - y[1] + (l \div HalfWord), l % HalfWord >>

Less(x, y) == x[1] < y[1] \/ (x[1] = y[1] /\ x[2] < y[2])

LessEq(x, y) == x = y \/ Less(x, y)

\* the cast (uint32_t) x
U32(x) == << x[1] % HalfWord, x[2] >>

\* the cast (int) x, (int32_t) x
I32(x) == << ((x[1] + 32768) % HalfWord) - 32768, x[2] >>

\* a value known to lie in 0 .. 2^31 - 1, as a number
Val(x) == x[1] * HalfWord + x[2]

Fits(x) == x[1] >= 0 /\ x[1] < 32768

\* UINT32_MAX, and INT32_MIN and INT32_MAX read as uint32_t
MaxWord == << 65535, 65535 >>
IntMin == << 32768, 0 >>
IntMax == << 32767, 65535 >>

\* the product of two 16-bit halves, as a pair (it does not fit a number)
TimesHalf(x, y) ==
    LET p == (x \div 256) * y
    IN Plus(<< p \div 256, (p % 256) * 256 >>, N((x % 256) * y))

\* (uint32_t)(((uint64_t) a * (uint64_t) b) & 0xFFFFFFFF)
Times32(a, b) ==
    LET cross == (TimesHalf(a[1], b[2])[2] + TimesHalf(a[2], b[1])[2]) % HalfWord
    IN U32(Plus(TimesHalf(a[2], b[2]), << cross, 0 >>))

\* a / d for a divisor d below 2^16: long division of the low half, one
\* byte at a time, after dividing the high half
DivSmall(a, d) ==
    LET r2 == a[1] % d
        t1 == r2 * 256 + (a[2] \div 256)
        t0 == (t1 % d) * 256 + (a[2] % 256)
    IN << a[1] \div d, (t1 \div d) * 256 + (t0 \div d) >>

\* k * b for a multiplier k below 2^16
TimesSmall(k, b) == Plus(<< k * b[1], 0 >>, TimesHalf(k, b[2]))

\* the left shift that brings the high half of b (b >= 2^16) into 2^15 .. 2^16 - 1
Normalise(b) == CHOOSE s \in 0 .. 15 : (b[1] * (2 ^ s)) \div 32768 = 1

\* a / b for a divisor b of 2^16 or more: the quotient is below 2^16; it is
\* estimated from the leading 16 bits of b and taken as the one candidate k
\* with k * b <= a < (k + 1) * b
DivLarge(a, b) ==
    LET s    == 16 - Normalise(b)
        est  == (a[1] * (2 ^ (16 - s)) + (a[2] \div (2 ^ s)))
                    \div (b[1] * (2 ^ (16 - s)) + (b[2] \div (2 ^ s)))
        near == { k \in (est - 3) .. (est + 1) : k >= 0 /\ k < HalfWord }
    IN N(CHOOSE k \in near : LessEq(TimesSmall(k, b), a)
                            /\ Less(a, Plus(TimesSmall(k, b), b)))

\* uint32_t quotient = dividend / divisor;  (divisor # 0)
Div32(a, b) == IF b[1] = 0 THEN DivSmall(a, b[2]) ELSE DivLarge(a, b)

AndBit(p, q) == p * q
OrBit(p, q) == p + q - p * q
XorBit(p, q) == (p + q) % 2

\* f applied to the bits of two 4-bit values
Nibble(f(_, _), x, y) ==
      f(x % 2, y % 2)
    + 2 * f((x \div 2) % 2, (y \div 2) % 2)
    + 4 * f((x \div 4) % 2, (y \div 4) % 2)
    + 8 * f((x \div 8) % 2, (y \div 8) % 2)

\* f applied to the bits of two 16-bit halves
Bitwise16(f(_, _), x, y) ==
      Nibble(f, x % 16, y % 16)
    + 16 * Nibble(f, (x \div 16) % 16, (y \div 16) % 16)
    + 256 * Nibble(f, (x \div 256) % 16, (y \div 256) % 16)
    + 4096 * Nibble(f, (x \div 4096) % 16, (y \div 4096) % 16)

BitAnd32(a, b) == << Bitwise16(AndBit, a[1], b[1]), Bitwise16(AndBit, a[2], b[2]) >>
BitOr32(a, b) == << Bitwise16(OrBit, a[1], b[1]), Bitwise16(OrBit, a[2], b[2]) >>
BitXor32(a, b) == << Bitwise16(XorBit, a[1], b[1]), Bitwise16(XorBit, a[2], b[2]) >>

(***************************************************************************)
(* Characters and C strings.  A token is a sequence of one-character       *)
(* strings; reading one position past its end yields the terminating NUL.  *)
(***************************************************************************)
NUL == "NUL"

Digits == << "0", "1", "2", "3", "4", "5", "6", "7", "8", "9" >>

UpperCase ==
    << "A", "B", "C", "D", "E", "F", "G", "H", "I", "J", "K", "L", "M",
       "N", "O", "P", "Q", "R", "S", "T", "U", "V", "W", "X", "Y", "Z" >>

LowerCase ==
    << "a", "b", "c", "d", "e", "f", "g", "h", "i", "j", "k", "l", "m",
       "n", "o", "p", "q", "r", "s", "t", "u", "v", "w", "x", "y", "z" >>

Index(seq, c) == CHOOSE k \in 1..Len(seq) : seq[k] = c

\* the character code of c (ASCII), for the characters tokens are written in
Ord(c) ==
    CASE c = NUL -> 0
      [] c = "#" -> 35
      [] c = "(" -> 40
      [] c = ")" -> 41
      [] c = "+" -> 43
      [] c = "-" -> 45
      [] c = "." -> 46
      [] c = "/" -> 47
      [] c = ":" -> 58
      [] \E k \in 1..Len(Digits) : Digits[k] = c -> 47 + Index(Digits, c)
      [] \E k \in 1..Len(UpperCase) : UpperCase[k] = c -> 64 + Index(UpperCase, c)
      [] \E k \in 1..Len(LowerCase) : LowerCase[k] = c -> 96 + Index(LowerCase, c)

\* s[k] of a C string (k counted from 0)
CharAt(s, k) == IF k < Len(s) THEN s[k + 1] ELSE NUL

\* the C string s + k
Skip(s, k) == IF k >= Len(s) THEN << >> ELSE SubSeq(s, k + 1, Len(s))

\* the value of the character with code o as a digit, or -1
DigitOf(o) ==
    IF o >= 48 /\ o <= 57 THEN o - 48
    ELSE IF o >= 97 /\ o <= 122 THEN o - 87
    ELSE IF o >= 65 /\ o <= 90 THEN o - 55
    ELSE -1

\* v if it is a digit of the given base, or -1
InBase(v, base) == IF v >= 0 /\ v < base THEN v ELSE -1

\* the value of c as a digit of the given base, or -1
DigitVal(c, base) == InBase(DigitOf(Ord(c)), base)

\* acc * base + d
Shift(acc, base, d) == Plus(<< acc[1] * base, 0 >>, N(acc[2] * base + d))

RECURSIVE DigitsRec(_, _, _, _)
\* consume the digits of s from position k on: [val, end]
DigitsRec(s, k, base, acc) ==
    IF DigitVal(CharAt(s, k), base) = -1 THEN [val |-> acc, end |-> k]
    ELSE DigitsRec(s, k + 1, base, Shift(acc, base, DigitVal(CharAt(s, k), base)))

\* what strtol makes of the digits r found from position k1 on
Converted(neg, k1, r) ==
    IF r.end = k1 THEN [val |-> N(0), end |-> 0]
    ELSE [val |-> IF neg THEN Minus(N(0), r.val) ELSE r.val, end |-> r.end]

\* the radix strtol reads s in from position k0 (behind the sign) on: base 0
\* means 16 behind "0x" and a hex digit, 8 behind "0", 10 otherwise
Radix(s, k0, base) ==
    IF base # 0 THEN base
    ELSE IF /\ CharAt(s, k0) = "0"
            /\ CharAt(s, k0 + 1) \in {"x", "X"}
            /\ DigitVal(CharAt(s, k0 + 2), 16) # -1 THEN 16
    ELSE IF CharAt(s, k0) = "0" THEN 8
    ELSE 10

\* strtol behind the sign
Unsigned(s, neg, k0, b) ==
    Converted(neg, IF b = 16 THEN k0 + 2 ELSE k0,
              DigitsRec(s, IF b = 16 THEN k0 + 2 ELSE k0, b, N(0)))

\* the position behind the sign of s
SignEnd(s) == IF CharAt(s, 0) \in {"-", "+"} THEN 1 ELSE 0

\* strtol(s, &end, base) for base 0 or 10, on a token (no leading blanks)
\* whose value fits a long: [val, end]; end = 0 when nothing was converted
strtol(s, base) ==
    Unsigned(s, CharAt(s, 0) = "-", SignEnd(s), Radix(s, SignEnd(s), base))

(***************************************************************************)
(* Validation (src/src/validation.c).  The run-time forms return the       *)
(* verdict; the caller's action sets cpu.running to FALSE on failure, as   *)
(* the run-time form does through its CPU pointer.                         *)
(***************************************************************************)
\* bool is_addr_literal_valid(uint32_t addr)
is_addr_literal_valid(addr) == ~LessEq(N(RAM_SIZE), addr)

\* bool is_reg_index_valid_asm(int reg_index)
is_reg_index_valid_asm(reg_index) ==
    ~(reg_index < 0 \/ reg_index >= MAX_REGISTERS)

\* bool is_addr_index_valid_asm(int addr_index)
is_addr_index_valid_asm(addr_index) ==
    ~(addr_index < 0 \/ addr_index >= MAX_ADDRESS_REGISTERS)

\* Fault for C22: the range check without its test for wrap-around
is_memory_access_valid_NoWrapTest(start, size) ==
    LET last == U32(Minus(Plus(start, size), N(1)))
    IN IF LessEq(N(RAM_SIZE), start) THEN FALSE
       ELSE IF size = N(0) THEN TRUE
       ELSE IF LessEq(N(RAM_SIZE), last) THEN FALSE
       ELSE TRUE

\* bool is_memory_access_valid(uint32_t start, uint32_t size)
is_memory_access_valid(start, size) ==
    LET last == U32(Minus(Plus(start, size), N(1)))
    IN IF LessEq(N(RAM_SIZE), start) THEN FALSE
       ELSE IF size = N(0) THEN TRUE
       ELSE IF Less(last, start) THEN FALSE
       ELSE IF LessEq(N(RAM_SIZE), last) THEN FALSE
       ELSE TRUE

\* is_reg_index_valid_runtime(uint32_t reg_index, cpu): the verdict
is_reg_index_valid_runtime(reg_index) == ~LessEq(N(MAX_REGISTERS), reg_index)

\* Fault for C21: a run-time check that lets the index 8 through
is_addr_index_valid_runtime_Inclusive(addr_index) ==
    ~Less(N(MAX_ADDRESS_REGISTERS), addr_index)

\* is_addr_index_valid_runtime(uint32_t addr_index, cpu): the verdict
is_addr_index_valid_runtime(addr_index) ==
    ~LessEq(N(MAX_ADDRESS_REGISTERS), addr_index)

\* is_addr_literal_valid_runtime(uint32_t addr, cpu): the verdict
is_addr_literal_valid_runtime(addr) == ~LessEq(N(RAM_SIZE), addr)

\* is_memory_access_valid_runtime(start, size, cpu): the verdict
is_memory_access_valid_runtime(start, size) == is_memory_access_valid(start, size)

(***************************************************************************)
(* Parser (src/src/parser.c).  NULL is the absent token.                   *)
(***************************************************************************)
NULL == << >>

opcode_table ==
    << [mnemonic |-> "LOADI", opcode |-> ISA_LOADI],
       [mnemonic |-> "LOADA", opcode |-> ISA_LOADA],
       [mnemonic |-> "LOADM", opcode |-> ISA_LOADM],
       [mnemonic |-> "STOREM", opcode |-> ISA_STOREM],
       [mnemonic |-> "ADD", opcode |-> ISA_ADD],
       [mnemonic |-> "SUB", opcode |-> ISA_SUB],
       [mnemonic |-> "MLP", opcode |-> ISA_MLP],
       [mnemonic |-> "DIV", opcode |-> ISA_DIV],
       [mnemonic |-> "AND", opcode |-> ISA_AND],
       [mnemonic |-> "OR", opcode |-> ISA_OR],
       [mnemonic |-> "XOR", opcode |-> ISA_XOR],
       [mnemonic |-> "JMP", opcode |-> ISA_JMP],
       [mnemonic |-> "JZ", opcode |-> ISA_JZ],
       [mnemonic |-> "JNZ", opcode |-> ISA_JNZ],
       [mnemonic |-> "CMP", opcode |-> ISA_CMP],
       [mnemonic |-> "HALT", opcode |-> ISA_HALT] >>

\* int get_opcode(const char *mnemonic, size_t opcode_table_size)
get_opcode(mnemonic) ==
    IF \E k \in 1..Len(opcode_table) : opcode_table[k].mnemonic = mnemonic
    THEN opcode_table[CHOOSE k \in 1..Len(opcode_table) :
                          opcode_table[k].mnemonic = mnemonic].opcode
    ELSE FAILURE

\* Fault for C39: a register parser that lets R8 through
parse_register_Inclusive(reg) ==
    LET r == strtol(Skip(reg, 1), 10)
    IN IF reg = NULL THEN FAILURE
       ELSE IF CharAt(reg, 0) # "R" THEN FAILURE
       ELSE IF CharAt(Skip(reg, 1), r.end) # NUL THEN FAILURE
       ELSE IF Less(r.val, N(0)) \/ Less(N(MAX_REGISTERS), r.val) THEN FAILURE
       ELSE Val(r.val)

\* int parse_register(const char *reg)
parse_register(reg) ==
    LET r == strtol(Skip(reg, 1), 10)
    IN IF reg = NULL THEN FAILURE
       ELSE IF CharAt(reg, 0) # "R" THEN FAILURE
       ELSE IF CharAt(Skip(reg, 1), r.end) # NUL THEN FAILURE
       ELSE IF Less(r.val, N(0)) \/ LessEq(N(MAX_REGISTERS), r.val) THEN FAILURE
       ELSE Val(r.val)

\* int parse_address_parenthesis(const char *addr, bool *literal_addr):
\* [ret, literal]; literal is *literal_addr afterwards (the callers pass false)
parse_address_parenthesis(addr) ==
    LET isLit == CharAt(addr, 0) = "(" /\ CharAt(addr, 1) = "0" /\ CharAt(addr, 2) = "x"
        isReg == CharAt(addr, 0) = "(" /\ CharAt(addr, 1) = "A"
        r     == strtol(Skip(addr, 1), 0)
        index == Ord(CharAt(addr, 2)) - Ord("0")
    IN IF addr = NULL THEN [ret |-> FAILURE, literal |-> FALSE]
       ELSE IF ~(isLit \/ isReg) THEN [ret |-> FAILURE, literal |-> FALSE]
       ELSE IF isLit
            THEN IF CharAt(Skip(addr, 1), r.end) # ")"
                   THEN [ret |-> FAILURE, literal |-> TRUE]
                 ELSE IF Less(r.val, N(0)) \/ Less(N(65535), r.val)
                   THEN [ret |-> FAILURE, literal |-> TRUE]
                 ELSE [ret |-> Val(r.val), literal |-> TRUE]
            ELSE IF index >= MAX_ADDRESS_REGISTERS
                   THEN [ret |-> FAILURE, literal |-> FALSE]
                 ELSE [ret |-> index, literal |-> FALSE]

\* int parse_address(const char *addr, bool literal_addr)
parse_address(addr, literal_addr) ==
    LET r     == strtol(addr, 0)
        index == Ord(CharAt(addr, 1)) - Ord("0")
    IN IF addr = NULL THEN FAILURE
       ELSE IF literal_addr
            THEN IF CharAt(addr, 0) # "0" \/ CharAt(addr, 1) # "x" THEN FAILURE
                 ELSE IF Less(r.val, N(0)) \/ Less(N(65535), r.val) THEN FAILURE
                 ELSE Val(r.val)
            ELSE IF CharAt(addr, 0) # "A" THEN FAILURE
                 ELSE IF index >= MAX_ADDRESS_REGISTERS THEN FAILURE
                 ELSE index

\* int parse_directive(const char *line): the text is ".org" followed by p
parse_directive(mn, p) ==
    IF mn = ".org" THEN I32(strtol(p, 0).val) ELSE N(FAILURE)

\* Fault for C26: the table is full one entry late
add_label_OneMore(label_name, addr, table) ==
    IF Len(table) > MAX_LABELS THEN [ret |-> FAILURE, labels |-> table]
    ELSE [ret |-> 0,
          labels |-> Append(table, [name |-> label_name, address |-> addr])]

\* int add_label(name, addr, labels, &label_count): [ret, labels], the value
\* returned and the table afterwards
add_label(label_name, addr, table) ==
    IF Len(table) >= MAX_LABELS THEN [ret |-> FAILURE, labels |-> table]
    ELSE [ret |-> 0,
          labels |-> Append(table, [name |-> label_name, address |-> addr])]

\* int find_label_addr(name, labels, label_count)
find_label_addr(label_name, table) ==
    IF \E k \in 1..Len(table) : table[k].name = label_name
    THEN LET first == CHOOSE k \in 1..Len(table) :
                         /\ table[k].name = label_name
                         /\ \A j \in 1..(k - 1) : table[j].name # label_name
         IN I32(table[first].address)
    ELSE N(FAILURE)

(***************************************************************************)
(* State.                                                                  *)
(***************************************************************************)
VARIABLES
    lines,      \* the source text handed to assemble, one record per line
    phase,      \* where the driver is: "pass1", "pass2", "assembled",
                \* "failed" (assemble returned the error sentinel), "run"
                \* (inside cpu_run's loop), "returned" (cpu_run returned)
    i,          \* the loop index of the pass in progress (lines are 1..Len)
    pc_cursor,  \* pass 1's cursor
    start_set,  \* pass 1's start_set
    labels,     \* the label table: a sequence of [name, address]
    range,      \* the AssemblyRange: [start_address, end_address, error]
    cpu,        \* the CPU
    ram,        \* ram->cells, on the cells written so far
    result,     \* what cpu_run returned: "true" or "false", "none" before it returns
    at1,        \* history: pass 1's cursor when it reached each line
    at2,        \* history: pass 2's program counter when it reached each line
    last,       \* history: the CPU and Memory before the instruction executed
                \* last, the word fetched for it and its handler's verdict
    lock,       \* ram->lock: [writer, readers], the callers holding it
    callers,    \* the threads calling ram_store, ram_load and ram_free on
                \* the Memory at once: where each is in its call, its
                \* arguments and locals
    call,       \* history: the Memory operation called last by a single
                \* caller, its arguments, the Memory it found, its result
    written,    \* history: for each address, the value stored there last
                \* and not cleared since
    earlier     \* history: the label tables the earlier calls of assemble
                \* left behind when they returned

vars == << lines, phase, i, pc_cursor, start_set, labels, range, cpu, ram,
           result, at1, at2, last, lock, callers, call, written, earlier >>

\* the state of the Memory operations' callers, which the engine never touches
memVars == << lock, callers, call, written >>

asmVars == << lines, i, pc_cursor, start_set, labels, at1, at2 >>

RegIndex == 0..(MAX_REGISTERS - 1)
AddrIndex == 0..(MAX_ADDRESS_REGISTERS - 1)

\* void cpu_init(CPU *cpu)
cpu_init ==
    [pc |-> N(0),
     address_registers |-> [k \in AddrIndex |-> N(0)],
     registers |-> [k \in RegIndex |-> N(0)],
     running |-> FALSE,
     zero_flag |-> FALSE,
     negative_flag |-> FALSE]

\* void ram_init(RAM *ram): every cell is zero
ram_init == << >>

\* ram->cells[a], a an index inside the array
Cell(cells, a) == IF a \in DOMAIN cells THEN cells[a] ELSE N(0)

\* ram->cells[a] = v
SetCell(cells, a, v) ==
    [k \in (DOMAIN cells) \cup {a} |-> IF k = a THEN v ELSE cells[k]]

\* no instruction executed yet: op is no 32-bit word
NoLast == [op |-> << -1, 0 >>, cpu |-> cpu_init, ram |-> ram_init, ret |-> TRUE]

\* pthread_rwlock_init(&ram->lock, &attr): held by nobody (callers are 1, 2, ...)
Unlocked == [writer |-> 0, readers |-> {}]

\* no Memory operation called yet; output is the caller's output variable
NoCall ==
    [op |-> "none", address |-> N(0), end |-> N(0), value |-> N(0),
     before |-> ram_init, ret |-> TRUE, output_before |-> N(0), output |-> N(0)]

\* the driver alone: no thread is calling the Memory operations
OnlyTheEngine ==
    /\ lock = Unlocked
    /\ callers = << >>
    /\ call = NoCall
    /\ written = << >>

(***************************************************************************)
(* The interpreter (src/src/cpu_exec.c).  A handler yields                 *)
(* [ret, cpu, ram]: its return value and the CPU and Memory it leaves.     *)
(***************************************************************************)
\* Fault for C37: a program counter that stays where it is
increase_pc_Stuck(c, skip) == c

\* static void increase_pc(CPU *cpu, const uint32_t skip)
increase_pc(c, skip) == [c EXCEPT !.pc = U32(Plus(c.pc, N(skip)))]

\* static uint32_t get_value_in_ram(RAM *ram, CPU *cpu, uint32_t skip)
get_value_in_ram(cells, c, skip) ==
    LET idx == U32(Plus(c.pc, N(skip)))
    IN IF LessEq(N(RAM_SIZE), idx) THEN N(0) ELSE Cell(cells, Val(idx))

Stop(c) == [c EXCEPT !.running = FALSE]

Fail(cells, c) == [ret |-> FALSE, cpu |-> c, ram |-> cells]

Done(cells, c) == [ret |-> TRUE, cpu |-> c, ram |-> cells]

\* static bool handle_loadi_execution(RAM *ram, CPU *cpu)
handle_loadi_execution(cells, c) ==
    LET register_index == get_value_in_ram(cells, c, 1)
        value == get_value_in_ram(cells, c, 2)
    IN IF ~is_reg_index_valid_runtime(register_index) THEN Fail(cells, Stop(c))
       ELSE Done(cells,
                 increase_pc([c EXCEPT !.registers[Val(register_index)] = value,
                                       !.zero_flag = (value = N(0))], 3))

\* Fault for C32: a LOADA that takes any literal
handle_loada_execution_AnyLiteral(cells, c) ==
    LET address_index == get_value_in_ram(cells, c, 1)
        address_literal == get_value_in_ram(cells, c, 2)
    IN IF ~is_addr_index_valid_runtime(address_index) THEN Fail(cells, Stop(c))
       ELSE Done(cells,
                 increase_pc([c EXCEPT !.address_registers[Val(address_index)] =
                                           address_literal], 3))

\* static bool handle_loada_execution(RAM *ram, CPU *cpu)
handle_loada_execution(cells, c) ==
    LET address_index == get_value_in_ram(cells, c, 1)
        address_literal == get_value_in_ram(cells, c, 2)
    IN IF ~is_addr_index_valid_runtime(address_index) THEN Fail(cells, Stop(c))
       ELSE IF ~is_addr_literal_valid_runtime(address_literal)
         THEN Fail(cells, Stop(c))
       ELSE Done(cells,
                 increase_pc([c EXCEPT !.address_registers[Val(address_index)] =
                                           address_literal], 3))

\* Fault for C36: a LOADM that has moved the program counter on when it
\* rejects its literal address
handle_loadm_execution_AdvancesFirst(cells, c) ==
    LET register_index == get_value_in_ram(cells, c, 1)
        mode == get_value_in_ram(cells, c, 2)
        operand == get_value_in_ram(cells, c, 3)
        target_address == IF mode = N(ADDR_LITERAL) THEN operand
                          ELSE c.address_registers[Val(operand)]
        val == Cell(cells, Val(target_address))
    IN IF ~is_reg_index_valid_runtime(register_index) THEN Fail(cells, Stop(c))
       ELSE IF mode = N(ADDR_LITERAL) /\ ~is_addr_literal_valid_runtime(operand)
         THEN Fail(cells, Stop(increase_pc(c, 4)))
       ELSE IF mode # N(ADDR_LITERAL) /\ ~is_addr_index_valid_runtime(operand)
         THEN Fail(cells, Stop(c))
       ELSE IF ~is_memory_access_valid_runtime(target_address, N(1))
         THEN Fail(cells, Stop(c))
       ELSE Done(cells,
                 increase_pc([c EXCEPT !.registers[Val(register_index)] = val,
                                       !.zero_flag = (val = N(0))], 4))

\* static bool handle_loadm_execution(RAM *ram, CPU *cpu)
handle_loadm_execution(cells, c) ==
    LET register_index == get_value_in_ram(cells, c, 1)
        mode == get_value_in_ram(cells, c, 2)
        operand == get_value_in_ram(cells, c, 3)
        target_address == IF mode = N(ADDR_LITERAL) THEN operand
                          ELSE c.address_registers[Val(operand)]
        val == Cell(cells, Val(target_address))
    IN IF ~is_reg_index_valid_runtime(register_index) THEN Fail(cells, Stop(c))
       ELSE IF mode = N(ADDR_LITERAL) /\ ~is_addr_literal_valid_runtime(operand)
         THEN Fail(cells, Stop(c))
       ELSE IF mode # N(ADDR_LITERAL) /\ ~is_addr_index_valid_runtime(operand)
         THEN Fail(cells, Stop(c))
       ELSE IF ~is_memory_access_valid_runtime(target_address, N(1))
         THEN Fail(cells, Stop(c))
       ELSE Done(cells,
                 increase_pc([c EXCEPT !.registers[Val(register_index)] = val,
                                       !.zero_flag = (val = N(0))], 4))

\* Fault for C12: a STOREM that sets the zero flag from the value it stores
handle_storem_execution_SetsZero(cells, c) ==
    LET address == get_value_in_ram(cells, c, 1)
        mode == get_value_in_ram(cells, c, 2)
        register_index == get_value_in_ram(cells, c, 3)
        target_address == IF mode = N(ADDR_LITERAL) THEN address
                          ELSE c.address_registers[Val(address)]
        value == c.registers[Val(register_index)]
    IN IF ~is_reg_index_valid_runtime(register_index) THEN Fail(cells, Stop(c))
       ELSE IF mode = N(ADDR_LITERAL) /\ ~is_addr_literal_valid_runtime(address)
         THEN Fail(cells, Stop(c))
       ELSE IF mode # N(ADDR_LITERAL) /\ ~is_addr_index_valid_runtime(address)
         THEN Fail(cells, Stop(c))
       ELSE IF ~is_memory_access_valid_runtime(target_address, N(1))
         THEN Fail(cells, Stop(c))
       ELSE Done(SetCell(cells, Val(target_address), value),
                 increase_pc([c EXCEPT !.zero_flag = (value = N(0))], 4))

\* static bool handle_storem_execution(RAM *ram, CPU *cpu)
handle_storem_execution(cells, c) ==
    LET address == get_value_in_ram(cells, c, 1)
        mode == get_value_in_ram(cells, c, 2)
        register_index == get_value_in_ram(cells, c, 3)
        target_address == IF mode = N(ADDR_LITERAL) THEN address
                          ELSE c.address_registers[Val(address)]
    IN IF ~is_reg_index_valid_runtime(register_index) THEN Fail(cells, Stop(c))
       ELSE IF mode = N(ADDR_LITERAL) /\ ~is_addr_literal_valid_runtime(address)
         THEN Fail(cells, Stop(c))
       ELSE IF mode # N(ADDR_LITERAL) /\ ~is_addr_index_valid_runtime(address)
         THEN Fail(cells, Stop(c))
       ELSE IF ~is_memory_access_valid_runtime(target_address, N(1))
         THEN Fail(cells, Stop(c))
       ELSE Done(SetCell(cells, Val(target_address),
                         c.registers[Val(register_index)]),
                 increase_pc(c, 4))

\* The body the seven arithmetic and bitwise handlers share: op(a, src_value)
\* is the statement that computes res.
ArithExecution(cells, c, op(_, _)) ==
    LET dst_index == get_value_in_ram(cells, c, 1)
        mode == get_value_in_ram(cells, c, 2)
        operand == get_value_in_ram(cells, c, 3)
        src_value == IF mode = N(OPERAND_REGISTER)
                     THEN c.registers[Val(operand)] ELSE operand
        res == op(c.registers[Val(dst_index)], src_value)
    IN IF ~is_reg_index_valid_runtime(dst_index) THEN Fail(cells, Stop(c))
       ELSE IF mode = N(OPERAND_REGISTER) /\ ~is_reg_index_valid_runtime(operand)
         THEN Fail(cells, Stop(c))
       ELSE IF mode # N(OPERAND_REGISTER) /\ mode # N(OPERAND_NUMERIC)
         THEN Fail(cells, c)
       ELSE Done(cells,
                 increase_pc([c EXCEPT !.registers[Val(dst_index)] = res,
                                       !.zero_flag = (res = N(0))], 4))

\* Fault for C9: an addition that saturates instead of wrapping
AddOp_Saturating(a, b) ==
    IF Plus(a, b)[1] >= HalfWord THEN MaxWord ELSE Plus(a, b)

\* uint32_t res = a + src_value;
AddOp(a, b) == U32(Plus(a, b))

\* uint32_t res = a - src_value;
SubOp(a, b) == U32(Minus(a, b))

\* static bool handle_add_execution(RAM *ram, CPU *cpu)
handle_add_execution(cells, c) == ArithExecution(cells, c, AddOp)

\* Fault for C38: a SUB that sets the negative flag from the sign of its result
handle_sub_execution_SetsNegative(cells, c) ==
    LET h == ArithExecution(cells, c, SubOp)
    IN IF h.ret
       THEN [h EXCEPT !.cpu.negative_flag = Less(IntMax, h.cpu.registers[0])]
       ELSE h

\* static bool handle_sub_execution(RAM *ram, CPU *cpu)
handle_sub_execution(cells, c) == ArithExecution(cells, c, SubOp)

\* static bool handle_mlp_execution(RAM *ram, CPU *cpu)
handle_mlp_execution(cells, c) == ArithExecution(cells, c, Times32)

\* Fault for C6: a division by zero that stores 0xFFFFFFFF and goes on
handle_div_execution_NoTrap(cells, c) ==
    LET dst_index == get_value_in_ram(cells, c, 1)
        mode == get_value_in_ram(cells, c, 2)
        operand == get_value_in_ram(cells, c, 3)
        divisor == IF mode = N(OPERAND_REGISTER)
                   THEN c.registers[Val(operand)] ELSE operand
        quotient == IF divisor = N(0) THEN MaxWord
                    ELSE Div32(c.registers[Val(dst_index)], divisor)
    IN IF ~is_reg_index_valid_runtime(dst_index) THEN Fail(cells, Stop(c))
       ELSE IF mode = N(OPERAND_REGISTER) /\ ~is_reg_index_valid_runtime(operand)
         THEN Fail(cells, Stop(c))
       ELSE IF mode # N(OPERAND_REGISTER) /\ mode # N(OPERAND_NUMERIC)
         THEN Fail(cells, c)
       ELSE Done(cells,
                 increase_pc([c EXCEPT !.registers[Val(dst_index)] = quotient,
                                       !.zero_flag = (quotient = N(0))], 4))

\* static bool handle_div_execution(RAM *ram, CPU *cpu)
handle_div_execution(cells, c) ==
    LET dst_index == get_value_in_ram(cells, c, 1)
        mode == get_value_in_ram(cells, c, 2)
        operand == get_value_in_ram(cells, c, 3)
        divisor == IF mode = N(OPERAND_REGISTER)
                   THEN c.registers[Val(operand)] ELSE operand
        quotient == Div32(c.registers[Val(dst_index)], divisor)
    IN IF ~is_reg_index_valid_runtime(dst_index) THEN Fail(cells, Stop(c))
       ELSE IF mode = N(OPERAND_REGISTER) /\ ~is_reg_index_valid_runtime(operand)
         THEN Fail(cells, Stop(c))
       ELSE IF mode # N(OPERAND_REGISTER) /\ mode # N(OPERAND_NUMERIC)
         THEN Fail(cells, c)
       ELSE IF divisor = N(0) THEN Fail(cells, Stop(c))
       ELSE Done(cells,
                 increase_pc([c EXCEPT !.registers[Val(dst_index)] = quotient,
                                       !.zero_flag = (quotient = N(0))], 4))

\* static bool handle_and_execution(RAM *ram, CPU *cpu)
handle_and_execution(cells, c) == ArithExecution(cells, c, BitAnd32)

\* static bool handle_or_execution(RAM *ram, CPU *cpu)
handle_or_execution(cells, c) == ArithExecution(cells, c, BitOr32)

\* static bool handle_xor_execution(RAM *ram, CPU *cpu)
handle_xor_execution(cells, c) == ArithExecution(cells, c, BitXor32)

\* static bool handle_jmp_execution(RAM *ram, CPU *cpu)
handle_jmp_execution(cells, c) ==
    LET target == get_value_in_ram(cells, c, 1)
    IN IF ~is_addr_literal_valid_runtime(target) THEN Fail(cells, Stop(c))
       ELSE Done(cells, [c EXCEPT !.pc = target])

\* static bool handle_jz_execution(RAM *ram, CPU *cpu)
handle_jz_execution(cells, c) ==
    LET target == get_value_in_ram(cells, c, 1)
    IN IF ~is_addr_literal_valid_runtime(target) THEN Fail(cells, Stop(c))
       ELSE IF c.zero_flag THEN Done(cells, [c EXCEPT !.pc = target])
       ELSE Done(cells, increase_pc(c, 2))

\* Fault for C8: a JNZ that jumps when the zero flag is set
handle_jnz_execution_Inverted(cells, c) ==
    LET target == get_value_in_ram(cells, c, 1)
    IN IF ~is_addr_literal_valid_runtime(target) THEN Fail(cells, Stop(c))
       ELSE IF c.zero_flag THEN Done(cells, [c EXCEPT !.pc = target])
       ELSE Done(cells, increase_pc(c, 2))

\* static bool handle_jnz_execution(RAM *ram, CPU *cpu)
handle_jnz_execution(cells, c) ==
    LET target == get_value_in_ram(cells, c, 1)
    IN IF ~is_addr_literal_valid_runtime(target) THEN Fail(cells, Stop(c))
       ELSE IF ~c.zero_flag THEN Done(cells, [c EXCEPT !.pc = target])
       ELSE Done(cells, increase_pc(c, 2))

\* What a build makes of the signed subtraction  int32_t diff = a - b  when it
\* overflows (undefined behaviour): "wrap" keeps the low 32 bits, "exact" is a
\* build that folds diff < 0 into a < b.  Without overflow the two agree.
SignedOverflowBuilds == {"wrap", "exact"}

SignedDiff(a, b, build) ==
    IF build = "wrap" THEN I32(Minus(a, b)) ELSE Minus(a, b)

\* Fault for C7: a CMP that rejects a bad second index without stopping the CPU
handle_cmp_execution_KeepsRunning(cells, c, build) ==
    LET a_index == get_value_in_ram(cells, c, 1)
        b_index == get_value_in_ram(cells, c, 2)
        a == I32(c.registers[Val(a_index)])
        b == I32(c.registers[Val(b_index)])
        diff == SignedDiff(a, b, build)
    IN IF ~is_reg_index_valid_runtime(a_index) THEN Fail(cells, Stop(c))
       ELSE IF ~is_reg_index_valid_runtime(b_index) THEN Fail(cells, c)
       ELSE Done(cells,
                 increase_pc([c EXCEPT !.zero_flag = (diff = N(0)),
                                       !.negative_flag = Less(diff, N(0))], 3))

\* static bool handle_cmp_execution(RAM *ram, CPU *cpu)
handle_cmp_execution(cells, c, build) ==
    LET a_index == get_value_in_ram(cells, c, 1)
        b_index == get_value_in_ram(cells, c, 2)
        a == I32(c.registers[Val(a_index)])
        b == I32(c.registers[Val(b_index)])
        diff == SignedDiff(a, b, build)
    IN IF ~is_reg_index_valid_runtime(a_index) THEN Fail(cells, Stop(c))
       ELSE IF ~is_reg_index_valid_runtime(b_index) THEN Fail(cells, Stop(c))
       ELSE Done(cells,
                 increase_pc([c EXCEPT !.zero_flag = (diff = N(0)),
                                       !.negative_flag = Less(diff, N(0))], 3))

(***************************************************************************)
(* The assembler (src/src/main.c).  A source line is held as strtok cuts   *)
(* it at blanks and commas: label is the first token without its ':'       *)
(* (NULL when the line has none), mn the mnemonic or directive ("" when    *)
(* none), op1 and op2 the operand tokens (NULL when absent).  Its field    *)
(* means says what the line denotes; the assembler does not read it.       *)
(* An assembly handler takes and yields [ok, cpu, ram].                    *)
(***************************************************************************)
\* static void initialize_assembly(AssemblyRange *range)
initialize_assembly ==
    [start_address |-> N(0), end_address |-> N(0), error |-> FALSE]

\* static AssemblyRange assemble_error(FILE *file)
assemble_error ==
    [start_address |-> N(0), end_address |-> N(0), error |-> TRUE]

\* static void emit(RAM *ram, CPU *cpu, uint32_t value): no bounds check, the
\* word lands at cells[pc] wherever that is
emit(m, value) ==
    [m EXCEPT !.ram = SetCell(m.ram, Val(m.cpu.pc), value),
              !.cpu.pc = U32(Plus(m.cpu.pc, N(1)))]

RECURSIVE EmitAll(_, _)
\* emit(ram, cpu, w1); emit(ram, cpu, w2); ... for the words of a sequence
EmitAll(m, words) ==
    IF words = << >> THEN m ELSE EmitAll(emit(m, Head(words)), Tail(words))

\* return false, nothing emitted
Refuse(m) == [m EXCEPT !.ok = FALSE]

\* static bool require_two_operands(size_t line_num, char *op1, char *op2)
require_two_operands(op1, op2) == ~(op1 = NULL \/ op2 = NULL)

\* static bool require_one_operand(size_t line_num, char *op1)
require_one_operand(op1) == ~(op1 = NULL)

\* static bool require_all_not_failure(line_num, message, count, ...)
require_all_not_failure(values) ==
    \A k \in 1..Len(values) : values[k] # FAILURE

\* Fault for C3: an arithmetic line emitted as opcode, operand, mode, dst
handle_arithmetic_instruction_SourceFirst(m, opcode, op1, op2) ==
    LET dst == parse_register(op1)
        src_reg == parse_register(op2)
        p == IF CharAt(op2, 0) = "#" THEN Skip(op2, 1) ELSE op2
        r == strtol(p, 0)
    IN IF ~require_two_operands(op1, op2) THEN Refuse(m)
       ELSE IF ~require_all_not_failure(<< dst >>) THEN Refuse(m)
       ELSE IF ~is_reg_index_valid_asm(dst) THEN Refuse(m)
       ELSE IF src_reg # FAILURE
         THEN EmitAll(m, << N(opcode), U32(N(src_reg)), N(OPERAND_REGISTER),
                          U32(N(dst)) >>)
       ELSE IF r.end = 0 \/ CharAt(p, r.end) # NUL THEN Refuse(m)
       ELSE EmitAll(m, << N(opcode), U32(r.val), N(OPERAND_NUMERIC), U32(N(dst)) >>)

\* static bool handle_arithmetic_instruction(ram, cpu, line_num, opcode, op1, op2)
handle_arithmetic_instruction(m, opcode, op1, op2) ==
    LET dst == parse_register(op1)
        src_reg == parse_register(op2)
        p == IF CharAt(op2, 0) = "#" THEN Skip(op2, 1) ELSE op2
        r == strtol(p, 0)
    IN IF ~require_two_operands(op1, op2) THEN Refuse(m)
       ELSE IF ~require_all_not_failure(<< dst >>) THEN Refuse(m)
       ELSE IF ~is_reg_index_valid_asm(dst) THEN Refuse(m)
       ELSE IF src_reg # FAILURE
         THEN EmitAll(m, << N(opcode), U32(N(dst)), N(OPERAND_REGISTER),
                          U32(N(src_reg)) >>)
       ELSE IF r.end = 0 \/ CharAt(p, r.end) # NUL THEN Refuse(m)
       ELSE EmitAll(m, << N(opcode), U32(N(dst)), N(OPERAND_NUMERIC), U32(r.val) >>)

\* static bool handle_loadi_instruction(ram, cpu, line_num, op1, op2)
handle_loadi_instruction(m, op1, op2) ==
    LET register_index == parse_register(op1)
        p == IF CharAt(op2, 0) = "#" THEN Skip(op2, 1) ELSE op2
        imm == U32(strtol(p, 0).val)
    IN IF ~require_two_operands(op1, op2) THEN Refuse(m)
       ELSE IF ~require_all_not_failure(<< register_index >>) THEN Refuse(m)
       ELSE EmitAll(m, << N(ISA_LOADI), U32(N(register_index)), imm >>)

\* static bool handle_loada_instruction(ram, cpu, line_num, op1, op2)
handle_loada_instruction(m, op1, op2) ==
    LET addr_reg == parse_address(op1, FALSE)
        addr_lit == parse_address(op2, TRUE)
    IN IF ~require_two_operands(op1, op2) THEN Refuse(m)
       ELSE IF ~require_all_not_failure(<< addr_reg, addr_lit >>) THEN Refuse(m)
       ELSE IF ~is_addr_index_valid_asm(addr_reg) THEN Refuse(m)
       ELSE IF ~is_addr_literal_valid(U32(N(addr_lit))) THEN Refuse(m)
       ELSE EmitAll(m, << N(ISA_LOADA), U32(N(addr_reg)), U32(N(addr_lit)) >>)

\* static bool handle_loadm_instruction(ram, cpu, line_num, op1, op2)
handle_loadm_instruction(m, op1, op2) ==
    LET register_index == parse_register(op1)
        parsed == parse_address_parenthesis(op2)
        addr == parsed.ret
        is_literal == parsed.literal
    IN IF ~require_two_operands(op1, op2) THEN Refuse(m)
       ELSE IF ~require_all_not_failure(<< register_index, addr >>) THEN Refuse(m)
       ELSE IF ~is_reg_index_valid_asm(register_index) THEN Refuse(m)
       ELSE IF is_literal /\ ~is_addr_literal_valid(U32(N(addr))) THEN Refuse(m)
       ELSE IF ~is_literal /\ ~is_addr_index_valid_asm(addr) THEN Refuse(m)
       ELSE EmitAll(m, << N(ISA_LOADM), U32(N(register_index)),
                        IF is_literal THEN N(ADDR_LITERAL) ELSE N(ADDR_REGISTER),
                        U32(N(addr)) >>)

\* static bool handle_storem_instruction(ram, cpu, line_num, op1, op2)
handle_storem_instruction(m, op1, op2) ==
    LET register_index == parse_register(op2)
        parsed == parse_address_parenthesis(op1)
        addr == parsed.ret
        is_literal == parsed.literal
    IN IF ~require_two_operands(op1, op2) THEN Refuse(m)
       ELSE IF ~require_all_not_failure(<< register_index, addr >>) THEN Refuse(m)
       ELSE IF ~is_reg_index_valid_asm(register_index) THEN Refuse(m)
       ELSE IF is_literal /\ ~is_addr_literal_valid(U32(N(addr))) THEN Refuse(m)
       ELSE IF ~is_literal /\ ~is_addr_index_valid_asm(addr) THEN Refuse(m)
       ELSE EmitAll(m, << N(ISA_STOREM), U32(N(addr)),
                        IF is_literal THEN N(ADDR_LITERAL) ELSE N(ADDR_REGISTER),
                        U32(N(register_index)) >>)

\* static bool handle_cmp_instruction(ram, cpu, line_num, op1, op2)
handle_cmp_instruction(m, op1, op2) ==
    LET dst_index == parse_register(op1)
        src_index == parse_register(op2)
    IN IF ~require_two_operands(op1, op2) THEN Refuse(m)
       ELSE IF ~require_all_not_failure(<< dst_index, src_index >>) THEN Refuse(m)
       ELSE IF ~is_reg_index_valid_asm(dst_index) THEN Refuse(m)
       ELSE IF ~is_reg_index_valid_asm(src_index) THEN Refuse(m)
       ELSE EmitAll(m, << N(ISA_CMP), U32(N(dst_index)), U32(N(src_index)) >>)

\* Fault for C23: a jump whose opcode is emitted before its label is resolved
handle_jmp_instructions_OpcodeFirst(m, opcode, op1, table) ==
    LET addr == IF CharAt(op1, 0) = "0" /\ CharAt(op1, 1) \in {"x", "X"}
                THEN N(parse_address(op1, TRUE))
                ELSE find_label_addr(op1, table)
    IN IF ~require_one_operand(op1) THEN Refuse(m)
       ELSE IF addr = N(FAILURE) THEN Refuse(emit(m, N(opcode)))
       ELSE EmitAll(m, << N(opcode), U32(addr) >>)

\* static bool handle_jmp_instructions(ram, cpu, line_num, opcode, op1, labels,
\* label_count)
handle_jmp_instructions(m, opcode, op1, table) ==
    LET addr == IF CharAt(op1, 0) = "0" /\ CharAt(op1, 1) \in {"x", "X"}
                THEN N(parse_address(op1, TRUE))
                ELSE find_label_addr(op1, table)
    IN IF ~require_one_operand(op1) THEN Refuse(m)
       ELSE IF addr = N(FAILURE) THEN Refuse(m)
       ELSE EmitAll(m, << N(opcode), U32(addr) >>)

(***************************************************************************)
(* assemble: one action per kind of line in each pass, one for the end of  *)
(* each pass.                                                              *)
(***************************************************************************)
\* lines[i] of the pass in progress
Line == lines[i]

\* is_empty_line(line), after the whitespace and the comment are stripped
is_empty_line(l) == l.label = NULL /\ l.mn = ""

\* pass 1: int directive_val = parse_directive(line); the whole line is
\* looked at, so a line that starts with a label is no directive.  (The manual
\* parse that follows finds ".org" only where parse_directive found it.)
DirectiveFirstPass(l) ==
    IF l.label # NULL THEN N(FAILURE) ELSE parse_directive(l.mn, l.op1)

\* pass 2: int directive_val = parse_directive(text); text starts behind the ':'
DirectiveSecondPass(l) == parse_directive(l.mn, l.op1)

\* pass 1: switch (opcode) { case ...: pc_cursor += n; ... default: pc_cursor += 1; }
instruction_size(opcode) ==
    CASE opcode = ISA_LOADI -> 3
      [] opcode = ISA_LOADA -> 3
      [] opcode = ISA_LOADM -> 4
      [] opcode = ISA_STOREM -> 4
      [] opcode \in { ISA_ADD, ISA_SUB, ISA_MLP, ISA_DIV, ISA_AND, ISA_OR, ISA_XOR } -> 4
      [] opcode \in { ISA_JMP, ISA_JZ, ISA_JNZ } -> 2
      [] opcode = ISA_HALT -> 1
      [] OTHER -> 1

\* return assemble_error(NULL);
AssembleFails ==
    /\ phase' = "failed"
    /\ range' = assemble_error

\* if (lines == NULL) return assemble_error(file);
AssembleNoLines ==
    /\ phase = "pass1"
    /\ lines = << >>
    /\ AssembleFails
    /\ UNCHANGED << memVars, earlier, asmVars, cpu, ram, result, last >>

InFirstPass == phase = "pass1" /\ i <= Len(lines)

\* pass 1: if (is_empty_line(line)) continue;
FirstPassEmpty ==
    /\ InFirstPass
    /\ is_empty_line(Line)
    /\ i' = i + 1
    /\ at1' = Append(at1, pc_cursor)
    /\ UNCHANGED << memVars, earlier, lines, phase, pc_cursor, start_set, labels, range, cpu, ram,
                    result, at2, last >>

\* pass 1: if (directive_val != FAILURE) { pc_cursor = ...; continue; }
FirstPassDirective ==
    /\ InFirstPass
    /\ ~is_empty_line(Line)
    /\ DirectiveFirstPass(Line) # N(FAILURE)
    /\ pc_cursor' = U32(DirectiveFirstPass(Line))
    /\ range' = IF ~start_set
                THEN [range EXCEPT !.start_address = U32(DirectiveFirstPass(Line))]
                ELSE range
    /\ start_set' = TRUE
    /\ i' = i + 1
    /\ at1' = Append(at1, pc_cursor)
    /\ UNCHANGED << memVars, earlier, lines, phase, labels, cpu, ram, result, at2, last >>

\* Fault for C24: pass 1 sizes an unknown mnemonic as one word (the default
\* of its switch) and leaves the refusal to pass 2
FirstPassStatement_SizesUnknown ==
    /\ InFirstPass
    /\ ~is_empty_line(Line)
    /\ DirectiveFirstPass(Line) = N(FAILURE)
    /\ LET added == IF Line.label # NULL
                    THEN add_label(Line.label, pc_cursor, labels)
                    ELSE [ret |-> 0, labels |-> labels]
           opcode == get_opcode(Line.mn)
       IN /\ labels' = added.labels
          /\ at1' = Append(at1, pc_cursor)
          /\ IF added.ret = FAILURE
             THEN AssembleFails /\ UNCHANGED << i, pc_cursor >>
             ELSE IF Line.mn = ""
             THEN i' = i + 1 /\ UNCHANGED << phase, range, pc_cursor >>
             ELSE /\ pc_cursor' = U32(Plus(pc_cursor, N(instruction_size(opcode))))
                  /\ i' = i + 1
                  /\ UNCHANGED << phase, range >>
    /\ UNCHANGED << memVars, earlier, lines, start_set, cpu, ram, result, at2, last >>

\* pass 1: the label, if the first token ends with ':', then the mnemonic
FirstPassStatement ==
    /\ InFirstPass
    /\ ~is_empty_line(Line)
    /\ DirectiveFirstPass(Line) = N(FAILURE)
    /\ LET added == IF Line.label # NULL
                    THEN add_label(Line.label, pc_cursor, labels)
                    ELSE [ret |-> 0, labels |-> labels]
           opcode == get_opcode(Line.mn)
       IN /\ labels' = added.labels
          /\ at1' = Append(at1, pc_cursor)
          /\ IF added.ret = FAILURE
             THEN AssembleFails /\ UNCHANGED << i, pc_cursor >>
             ELSE IF Line.mn = ""
             THEN i' = i + 1 /\ UNCHANGED << phase, range, pc_cursor >>
             ELSE IF opcode = FAILURE
             THEN AssembleFails /\ UNCHANGED << i, pc_cursor >>
             ELSE /\ pc_cursor' = U32(Plus(pc_cursor, N(instruction_size(opcode))))
                  /\ i' = i + 1
                  /\ UNCHANGED << phase, range >>
    /\ UNCHANGED << memVars, earlier, lines, start_set, cpu, ram, result, at2, last >>

\* if (!start_set) range.start_address = 0;  cpu->pc = range.start_address;
FirstPassDone ==
    /\ phase = "pass1"
    /\ lines # << >>
    /\ i > Len(lines)
    /\ range' = IF ~start_set THEN [range EXCEPT !.start_address = N(0)] ELSE range
    /\ cpu' = [cpu EXCEPT !.pc = range'.start_address]
    /\ phase' = "pass2"
    /\ i' = 1
    /\ at1' = Append(at1, pc_cursor)
    /\ UNCHANGED << memVars, earlier, lines, pc_cursor, start_set, labels, ram, result, at2, last >>

InSecondPass == phase = "pass2" /\ i <= Len(lines)

\* pass 2: an empty line, or a line with a label and nothing behind it
SecondPassEmpty ==
    /\ InSecondPass
    /\ Line.mn = ""
    /\ i' = i + 1
    /\ at2' = Append(at2, cpu.pc)
    /\ UNCHANGED << memVars, earlier, lines, phase, pc_cursor, start_set, labels, range, cpu, ram,
                    result, at1, last >>

\* pass 2: if (directive_val != FAILURE) { cpu->pc = ...; continue; }
SecondPassDirective ==
    /\ InSecondPass
    /\ Line.mn # ""
    /\ DirectiveSecondPass(Line) # N(FAILURE)
    /\ cpu' = [cpu EXCEPT !.pc = U32(DirectiveSecondPass(Line))]
    /\ i' = i + 1
    /\ at2' = Append(at2, cpu.pc)
    /\ UNCHANGED << memVars, earlier, lines, phase, pc_cursor, start_set, labels, range, ram,
                    result, at1, last >>

\* pass 2: switch (opcode) { case ISA_x: if (!handle_x_instruction(...)) ... }
Translate(m, opcode, l) ==
    CASE opcode = ISA_LOADI -> handle_loadi_instruction(m, l.op1, l.op2)
      [] opcode = ISA_LOADA -> handle_loada_instruction(m, l.op1, l.op2)
      [] opcode = ISA_LOADM -> handle_loadm_instruction(m, l.op1, l.op2)
      [] opcode = ISA_STOREM -> handle_storem_instruction(m, l.op1, l.op2)
      [] opcode \in { ISA_ADD, ISA_SUB, ISA_MLP, ISA_DIV, ISA_AND, ISA_OR, ISA_XOR } ->
            handle_arithmetic_instruction(m, opcode, l.op1, l.op2)
      [] opcode = ISA_CMP -> handle_cmp_instruction(m, l.op1, l.op2)
      [] opcode \in { ISA_JMP, ISA_JZ, ISA_JNZ } ->
            handle_jmp_instructions(m, opcode, l.op1, labels)
      [] opcode = ISA_HALT -> emit(m, N(ISA_HALT))
      [] OTHER -> Refuse(m)

\* pass 2: the mnemonic and its operands
SecondPassStatement ==
    /\ InSecondPass
    /\ Line.mn # ""
    /\ DirectiveSecondPass(Line) = N(FAILURE)
    /\ LET opcode == get_opcode(Line.mn)
           m == Translate([ok |-> TRUE, cpu |-> cpu, ram |-> ram], opcode, Line)
       IN /\ at2' = Append(at2, cpu.pc)
          /\ cpu' = m.cpu
          /\ ram' = m.ram
          /\ IF opcode = FAILURE \/ ~m.ok
             THEN AssembleFails /\ UNCHANGED i
             ELSE /\ i' = i + 1
                  /\ UNCHANGED << phase, range >>
    /\ UNCHANGED << memVars, earlier, lines, pc_cursor, start_set, labels, result, at1, last >>

\* range.end_address = cpu->pc; return range;
SecondPassDone ==
    /\ phase = "pass2"
    /\ i > Len(lines)
    /\ range' = [range EXCEPT !.end_address = cpu.pc]
    /\ phase' = "assembled"
    /\ at2' = Append(at2, cpu.pc)
    /\ UNCHANGED << memVars, earlier, lines, i, pc_cursor, start_set, labels, cpu, ram, result,
                    at1, last >>

NextAssemble ==
    \/ AssembleNoLines
    \/ FirstPassEmpty \/ FirstPassDirective \/ FirstPassStatement \/ FirstPassDone
    \/ SecondPassEmpty \/ SecondPassDirective \/ SecondPassStatement
    \/ SecondPassDone

(***************************************************************************)
(* cpu_run: one action for entering the loop, one per case of the switch,  *)
(* one for leaving the loop when its condition is false.                   *)
(***************************************************************************)
\* cpu->pc = assembly_range.start_address; cpu->running = true;
CpuRunStart ==
    /\ phase = "assembled"
    /\ cpu' = [cpu EXCEPT !.pc = range.start_address, !.running = TRUE]
    /\ phase' = "run"
    /\ UNCHANGED << memVars, earlier, asmVars, range, ram, result, last >>

\* while (cpu->running && cpu->pc != assembly_range.end_address)
LoopCondition == cpu.running /\ cpu.pc # range.end_address

\* uint32_t instruction = get_value_in_ram(ram, cpu, 0);
Fetched == get_value_in_ram(ram, cpu, 0)

\* case ISA_x: if (!handle_x_execution(ram, cpu)) return false; break;
Dispatch(opcode, h) ==
    /\ phase = "run"
    /\ LoopCondition
    /\ Fetched = N(opcode)
    /\ cpu' = h.cpu
    /\ ram' = h.ram
    /\ last' = [op |-> Fetched, cpu |-> cpu, ram |-> ram, ret |-> h.ret]
    /\ IF h.ret
       THEN phase' = "run" /\ result' = result
       ELSE phase' = "returned" /\ result' = "false"
    /\ UNCHANGED << memVars, earlier, asmVars, range >>

ExecLOADI == Dispatch(ISA_LOADI, handle_loadi_execution(ram, cpu))
ExecLOADA == Dispatch(ISA_LOADA, handle_loada_execution(ram, cpu))
ExecLOADM == Dispatch(ISA_LOADM, handle_loadm_execution(ram, cpu))
ExecSTOREM == Dispatch(ISA_STOREM, handle_storem_execution(ram, cpu))
ExecADD == Dispatch(ISA_ADD, handle_add_execution(ram, cpu))
ExecSUB == Dispatch(ISA_SUB, handle_sub_execution(ram, cpu))
ExecMLP == Dispatch(ISA_MLP, handle_mlp_execution(ram, cpu))
ExecDIV == Dispatch(ISA_DIV, handle_div_execution(ram, cpu))
ExecAND == Dispatch(ISA_AND, handle_and_execution(ram, cpu))
ExecOR == Dispatch(ISA_OR, handle_or_execution(ram, cpu))
ExecXOR == Dispatch(ISA_XOR, handle_xor_execution(ram, cpu))
ExecJMP == Dispatch(ISA_JMP, handle_jmp_execution(ram, cpu))
ExecJZ == Dispatch(ISA_JZ, handle_jz_execution(ram, cpu))
ExecJNZ == Dispatch(ISA_JNZ, handle_jnz_execution(ram, cpu))

ExecCMP ==
    \E build \in SignedOverflowBuilds :
        Dispatch(ISA_CMP, handle_cmp_execution(ram, cpu, build))

\* Fault for C5: a HALT that also steps over its own word
ExecHALT_Advancing == Dispatch(ISA_HALT, Done(ram, Stop(increase_pc(cpu, 1))))

\* case ISA_HALT: cpu->running = false; break;
ExecHALT == Dispatch(ISA_HALT, Done(ram, Stop(cpu)))

KnownOpcodes ==
    { ISA_LOADI, ISA_LOADA, ISA_LOADM, ISA_STOREM, ISA_ADD, ISA_SUB, ISA_MLP,
      ISA_DIV, ISA_AND, ISA_OR, ISA_XOR, ISA_JMP, ISA_JZ, ISA_JNZ, ISA_CMP,
      ISA_HALT }

\* Fault for C14: a default case that steps over the word it rejects
ExecInvalid_Advancing ==
    /\ phase = "run"
    /\ LoopCondition
    /\ \A o \in KnownOpcodes : Fetched # N(o)
    /\ cpu' = Stop(increase_pc(cpu, 1))
    /\ last' = [op |-> Fetched, cpu |-> cpu, ram |-> ram, ret |-> FALSE]
    /\ phase' = "returned"
    /\ result' = "false"
    /\ UNCHANGED << memVars, earlier, asmVars, range, ram >>

\* default: cpu->running = false; return false;
ExecInvalid ==
    /\ phase = "run"
    /\ LoopCondition
    /\ \A o \in KnownOpcodes : Fetched # N(o)
    /\ cpu' = Stop(cpu)
    /\ last' = [op |-> Fetched, cpu |-> cpu, ram |-> ram, ret |-> FALSE]
    /\ phase' = "returned"
    /\ result' = "false"
    /\ UNCHANGED << memVars, earlier, asmVars, range, ram >>

\* the loop condition is false: return true;
CpuRunReturn ==
    /\ phase = "run"
    /\ ~LoopCondition
    /\ phase' = "returned"
    /\ result' = "true"
    /\ UNCHANGED << memVars, earlier, asmVars, range, cpu, ram, last >>

Exec ==
    \/ ExecLOADI \/ ExecLOADA \/ ExecLOADM \/ ExecSTOREM
    \/ ExecADD \/ ExecSUB \/ ExecMLP \/ ExecDIV
    \/ ExecAND \/ ExecOR \/ ExecXOR
    \/ ExecJMP \/ ExecJZ \/ ExecJNZ \/ ExecCMP
    \/ ExecHALT \/ ExecInvalid

NextRun == CpuRunStart \/ Exec \/ CpuRunReturn

(***************************************************************************)
(* Running arbitrary Memory contents: cpu_run is entered with a range, a   *)
(* CPU and a Memory holding one instruction word sequence, drawn from the  *)
(* encodings below (valid and invalid operand words alike), and what lies  *)
(* behind it.                                                              *)
(***************************************************************************)
RegVals == { N(0), N(1), IntMax, IntMin, MaxWord }

\* the instructions whose effect depends on what R0 and R1 hold
ReadsRegisters(instr) ==
    \E o \in { ISA_STOREM, ISA_ADD, ISA_SUB, ISA_MLP, ISA_DIV, ISA_AND, ISA_OR,
                ISA_XOR, ISA_CMP } : instr[1] = N(o)

\* the instructions whose effect depends on the zero flag
ReadsZeroFlag(instr) == instr[1] = N(ISA_JZ) \/ instr[1] = N(ISA_JNZ)

RegWords == { N(0), N(7), N(MAX_REGISTERS) }
ModeWords == { N(0), N(1), N(2) }
OperandWords == { N(0), N(1), N(MAX_REGISTERS), MaxWord }
AddrWords == { N(1), N(32), N(MAX_ADDRESS_REGISTERS), N(RAM_SIZE) }
TargetWords == { N(0), N(6), N(RAM_SIZE) }

ArithOpcodes == { ISA_ADD, ISA_SUB, ISA_MLP, ISA_DIV, ISA_AND, ISA_OR, ISA_XOR }

RawInstructions ==
    { << N(ISA_LOADI), r, v >> : r \in RegWords, v \in { N(0), N(5), MaxWord } }
    \cup { << N(ISA_LOADA), x, a >> :
             x \in { N(0), N(7), N(MAX_ADDRESS_REGISTERS) },
             a \in { N(0), N(RAM_SIZE - 1), N(RAM_SIZE) } }
    \cup { << N(ISA_LOADM), r, m, a >> :
             r \in RegWords, m \in ModeWords, a \in AddrWords }
    \cup { << N(ISA_STOREM), a, m, r >> :
             a \in AddrWords, m \in ModeWords, r \in RegWords }
    \cup { << N(o), r, m, v >> :
             o \in ArithOpcodes, r \in { N(0), N(MAX_REGISTERS) },
             m \in ModeWords, v \in OperandWords }
    \cup { << N(o), t >> : o \in { ISA_JMP, ISA_JZ, ISA_JNZ }, t \in TargetWords }
    \cup { << N(ISA_CMP), a, b >> :
             a \in { N(0), N(1), N(MAX_REGISTERS) },
             b \in { N(0), N(1), N(MAX_REGISTERS) } }
    \cup { << N(ISA_HALT) >>, << N(0) >>, << N(16) >> }

\* the cells of Memory holding the words from address s on (those that exist)
Place(s, words) ==
    [a \in { s + k - 1 : k \in { j \in 1..Len(words) : s + j - 1 < RAM_SIZE } }
        |-> words[a - s + 1]]

\* f, overridden by g where g is defined
Overlay(f, g) ==
    [a \in (DOMAIN f) \cup (DOMAIN g) |-> IF a \in DOMAIN g THEN g[a] ELSE f[a]]

StartAddresses == { 0, RAM_SIZE - 3 }

\* data the loads find: cell 32 holds 9, cell 33 (where A1 points) holds 0
DataCells == Place(32, << N(9), N(0) >>)

InitRun ==
    \E instr \in RawInstructions, s \in StartAddresses,
       tail \in { "end", "halt", "more" } :
     \E r0 \in IF ReadsRegisters(instr) THEN RegVals ELSE { N(5) },
        r1 \in IF ReadsRegisters(instr) THEN RegVals ELSE { N(1) },
        zf \in IF ReadsZeroFlag(instr) THEN BOOLEAN ELSE { FALSE },
        nf \in BOOLEAN :
        /\ lines = << >>
        /\ phase = "assembled"
        /\ i = 0
        /\ pc_cursor = N(0)
        /\ start_set = FALSE
        /\ labels = << >>
        /\ earlier = << >>
        /\ at1 = << >>
        /\ at2 = << >>
        /\ range = [start_address |-> N(s),
                    end_address |-> N(s + Len(instr) + IF tail = "end" THEN 0 ELSE 1),
                    error |-> FALSE]
        /\ cpu = [cpu_init EXCEPT !.registers[0] = r0,
                                  !.registers[1] = r1,
                                  !.registers[7] = N(3),
                                  !.address_registers[1] = N(33),
                                  !.zero_flag = zf,
                                  !.negative_flag = nf]
        /\ ram = Overlay(DataCells,
                         Place(s, IF tail = "halt"
                                  THEN Append(instr, N(ISA_HALT)) ELSE instr))
        /\ result = "none"
        /\ last = NoLast
        /\ OnlyTheEngine

SpecRun == InitRun /\ [][NextRun]_vars

(***************************************************************************)
(* The driver (main): ram_init, cpu_init, assemble, and cpu_run when the   *)
(* range is no error.  The sources assembled are drawn from three          *)
(* families: a forward jump over a gap of arbitrary lines to a label, the  *)
(* counting loop, and sources the assembler refuses.                       *)
(***************************************************************************)
MaxGap == 1
MaxN == 3

Ln(label, mn, op1, op2, means) ==
    [label |-> label, mn |-> mn, op1 |-> op1, op2 |-> op2, means |-> means]

\* what a line denotes: the operation, the register it names, how the other
\* operand is given and that operand
Means(op, reg, via, arg) == [op |-> op, reg |-> reg, via |-> via, arg |-> arg]

Nothing == Means(0, 0, "none", N(0))

Mnemonic(opcode) ==
    opcode_table[CHOOSE k \in 1..Len(opcode_table) :
                     opcode_table[k].opcode = opcode].mnemonic

\* the decimal numeral of n, n < 100
Decimal(n) ==
    IF n < 10 THEN << Digits[n + 1] >>
    ELSE << Digits[(n \div 10) + 1], Digits[(n % 10) + 1] >>

R(n) == << "R", Digits[n + 1] >>

BlankLine == Ln(NULL, "", NULL, NULL, Nothing)

Vocabulary ==
    { Ln(NULL, "LOADI", R(0), << "#", "5" >>,
         Means(ISA_LOADI, 0, "numeric", N(5))),
      Ln(NULL, "LOADI", R(3), << "0", "x", "1", "0" >>,
         Means(ISA_LOADI, 3, "numeric", N(16))),
      Ln(NULL, "LOADA", << "A", "2" >>, << "0", "x", "0", "0", "4", "1" >>,
         Means(ISA_LOADA, 2, "literal", N(65))),
      Ln(NULL, "LOADM", R(2), << "(", "A", "1", ")" >>,
         Means(ISA_LOADM, 2, "register", N(1))),
      Ln(NULL, "LOADM", R(2), << "(", "0", "x", "0", "0", "0", "1", ")" >>,
         Means(ISA_LOADM, 2, "literal", N(1))),
      Ln(NULL, "STOREM", << "(", "A", "1", ")" >>, R(0),
         Means(ISA_STOREM, 0, "register", N(1))),
      Ln(NULL, "STOREM", << "(", "0", "x", "0", "0", "4", "1", ")" >>, R(1),
         Means(ISA_STOREM, 1, "literal", N(65))),
      Ln(NULL, "CMP", R(0), R(1), Means(ISA_CMP, 0, "register", N(1))),
      Ln(NULL, "HALT", NULL, NULL, Means(ISA_HALT, 0, "none", N(0))),
      Ln(NULL, ".org", << "0", "x", "0", "0", "3", "0" >>, NULL, Nothing),
      BlankLine }
    \cup { Ln(NULL, Mnemonic(o), R(0), R(1), Means(o, 0, "register", N(1))) :
             o \in ArithOpcodes }
    \cup { Ln(NULL, Mnemonic(o), R(1), << "#", "2" >>, Means(o, 1, "numeric", N(2))) :
             o \in ArithOpcodes }
    \cup { Ln(NULL, Mnemonic(o), << "0", "x", "0", "0", "4", "0" >>, NULL,
              Means(o, 0, "literal", N(64))) : o \in { ISA_JMP, ISA_JZ, ISA_JNZ } }

\* the sequences over S of length 0 .. n
RECURSIVE SeqsUpTo(_, _)
SeqsUpTo(S, n) ==
    IF n = 0 THEN { << >> }
    ELSE SeqsUpTo(S, n - 1)
         \cup { Append(q, x) : q \in { t \in SeqsUpTo(S, n - 1) : Len(t) = n - 1 },
                               x \in S }

Prologue ==
    << Ln(NULL, "LOADI", R(0), << "#", "6" >>, Means(ISA_LOADI, 0, "numeric", N(6))),
       Ln(NULL, "LOADI", R(1), << "3" >>, Means(ISA_LOADI, 1, "numeric", N(3))),
       Ln(NULL, "LOADA", << "A", "1" >>, << "0", "x", "0", "0", "4", "0" >>,
          Means(ISA_LOADA, 1, "literal", N(64))) >>

Target == << "t" >>

JumpTo(o, name) == Ln(NULL, Mnemonic(o), name, NULL, Means(o, 0, "label", N(0)))

\* J t / the gap / t: HALT   and, with an empty gap,   J t / t: / HALT
ForwardJumps ==
    { Prologue \o << JumpTo(o, Target) >> \o gap
        \o << Ln(Target, "HALT", NULL, NULL, Means(ISA_HALT, 0, "none", N(0))) >> :
        o \in { ISA_JMP, ISA_JZ, ISA_JNZ }, gap \in SeqsUpTo(Vocabulary, MaxGap) }
    \cup { Prologue \o << JumpTo(o, Target), Ln(Target, "", NULL, NULL, Nothing),
                          Ln(NULL, "HALT", NULL, NULL,
                             Means(ISA_HALT, 0, "none", N(0))) >> :
             o \in { ISA_JMP, ISA_JZ, ISA_JNZ } }

Loop == << "l", "o", "o", "p" >>

\* LOADI R0,0 / LOADI R1,n / loop: ADD R0,#1 / CMP R0,R1 / JNZ loop / HALT
CountingLoop(n) ==
    << Ln(NULL, "LOADI", R(0), << "0" >>, Means(ISA_LOADI, 0, "numeric", N(0))),
       Ln(NULL, "LOADI", R(1), Decimal(n), Means(ISA_LOADI, 1, "numeric", N(n))),
       Ln(Loop, "ADD", R(0), << "#", "1" >>, Means(ISA_ADD, 0, "numeric", N(1))),
       Ln(NULL, "CMP", R(0), R(1), Means(ISA_CMP, 0, "register", N(1))),
       JumpTo(ISA_JNZ, Loop),
       Ln(NULL, "HALT", NULL, NULL, Means(ISA_HALT, 0, "none", N(0))) >>

CountingLoops == { CountingLoop(n) : n \in 1..MaxN }

\* no line at all, an unknown mnemonic, a register that does not exist, a
\* label that is not defined
Refused ==
    { << >>,
      << Ln(NULL, "FOO", NULL, NULL, Nothing) >>,
      << Ln(NULL, "ADD", R(9), R(1), Nothing) >>,
      << JumpTo(ISA_JMP, << "n", "o" >>) >> }

\* LOADI R0,0x80000000 / LOADI R1,#1 / CMP R0,R1 / HALT: the least signed
\* value compared with 1
SignedCompare ==
    << Ln(NULL, "LOADI", R(0), << "0", "x", "8", "0", "0", "0", "0", "0", "0", "0" >>,
          Means(ISA_LOADI, 0, "numeric", IntMin)),
       Ln(NULL, "LOADI", R(1), << "#", "1" >>, Means(ISA_LOADI, 1, "numeric", N(1))),
       Ln(NULL, "CMP", R(0), R(1), Means(ISA_CMP, 0, "register", N(1))),
       Ln(NULL, "HALT", NULL, NULL, Means(ISA_HALT, 0, "none", N(0))) >>

\* lines pass 2 refuses: a register that does not exist, a label that is not
\* defined, an address outside Memory, an operand missing
Rejected ==
    { Ln(NULL, "ADD", R(9), R(1), Nothing),
      JumpTo(ISA_JZ, << "n", "o" >>),
      Ln(NULL, "LOADA", << "A", "1" >>, << "0", "x", "1", "0", "0", "0", "0" >>,
         Nothing),
      Ln(NULL, "LOADI", R(0), NULL, Nothing) }

\* the prologue, a line pass 2 refuses, HALT
FailingLate ==
    { Prologue \o << bad, Ln(NULL, "HALT", NULL, NULL,
                             Means(ISA_HALT, 0, "none", N(0))) >> :
        bad \in Rejected }

\* the prologue, then a mnemonic that is in no table, bare or behind a label
UnknownLate ==
    { Prologue \o << Ln(l, "FOO", R(0), R(1), Nothing) >> : l \in { NULL, Target } }

\* .org 0x0040
Origin == Ln(NULL, ".org", << "0", "x", "0", "0", "4", "0" >>, NULL, Nothing)

\* LOADI R0,#6 and HALT with the origin directive in front of them, between
\* them and behind them
Origins ==
    LET load == Prologue[1]
        halt == Ln(NULL, "HALT", NULL, NULL, Means(ISA_HALT, 0, "none", N(0)))
    IN { << Origin, load, halt >>, << load, Origin, halt >>, << load, halt, Origin >> }

\* the label l000, l001, ...
LabelName(n) ==
    LET digit == << "0", "1", "2", "3", "4", "5", "6", "7", "8", "9" >>
    IN << "l", digit[(n \div 100) + 1], digit[((n \div 10) % 10) + 1], digit[(n % 10) + 1] >>

\* n lines that define a label each, then HALT
ManyLabels(n) ==
    [k \in 1..n |-> Ln(LabelName(k - 1), "", NULL, NULL, Nothing)]
        \o << Ln(NULL, "HALT", NULL, NULL, Means(ISA_HALT, 0, "none", N(0))) >>

\* a full label table and one label more than that
LabelTables == { ManyLabels(MAX_LABELS), ManyLabels(MAX_LABELS + 1) }

\* JMP t / t: LOADI R0,#6 / t: HALT: the label t defined twice
Duplicates ==
    { << JumpTo(ISA_JMP, Target),
         Ln(Target, "LOADI", R(0), << "#", "6" >>, Means(ISA_LOADI, 0, "numeric", N(6))),
         Ln(Target, "HALT", NULL, NULL, Means(ISA_HALT, 0, "none", N(0))) >> }

\* .org 0xFFFF / LOADI R0,#6 / HALT, whose code runs past the last cell, and
\* .org 0x10000 / HALT, which starts behind it
HighOrigins ==
    LET load == Prologue[1]
        halt == Ln(NULL, "HALT", NULL, NULL, Means(ISA_HALT, 0, "none", N(0)))
    IN { << Ln(NULL, ".org", << "0", "x", "F", "F", "F", "F" >>, NULL, Nothing),
            load, halt >>,
         << Ln(NULL, ".org", << "0", "x", "1", "0", "0", "0", "0" >>, NULL, Nothing),
            halt >> }

\* one line with the highest register, address register or address there
\* is, or with the first there is not, then HALT
Indexed ==
    LET halt == Ln(NULL, "HALT", NULL, NULL, Means(ISA_HALT, 0, "none", N(0)))
        top == << "0", "x", "F", "F", "F", "F" >>
        over == << "0", "x", "1", "0", "0", "0", "0" >>
    IN { << l, halt >> : l \in
         { Ln(NULL, "LOADI", R(7), << "#", "1" >>, Means(ISA_LOADI, 7, "numeric", N(1))),
           Ln(NULL, "LOADA", << "A", "7" >>, top,
              Means(ISA_LOADA, 7, "literal", N(65535))),
           Ln(NULL, "LOADM", R(7), << "(" >> \o top \o << ")" >>,
              Means(ISA_LOADM, 7, "literal", N(65535))),
           Ln(NULL, "LOADM", R(7), << "(", "A", "7", ")" >>,
              Means(ISA_LOADM, 7, "register", N(7))),
           Ln(NULL, "STOREM", << "(" >> \o top \o << ")" >>, R(7),
              Means(ISA_STOREM, 7, "literal", N(65535))),
           Ln(NULL, "STOREM", << "(", "A", "7", ")" >>, R(7),
              Means(ISA_STOREM, 7, "register", N(7))),
           Ln(NULL, "XOR", R(7), R(7), Means(ISA_XOR, 7, "register", N(7))),
           Ln(NULL, "LOADI", R(8), << "#", "1" >>, Nothing),
           Ln(NULL, "ADD", R(0), R(8), Nothing),
           Ln(NULL, "LOADA", << "A", "8" >>, top, Nothing),
           Ln(NULL, "LOADM", R(8), << "(", "A", "0", ")" >>, Nothing),
           Ln(NULL, "LOADM", R(0), << "(", "A", "8", ")" >>, Nothing),
           Ln(NULL, "LOADM", R(0), << "(", "A", ".", ")" >>, Nothing),
           Ln(NULL, "LOADM", R(0), << "(" >> \o over \o << ")" >>, Nothing),
           Ln(NULL, "STOREM", << "(", "A", "8", ")" >>, R(0), Nothing),
           Ln(NULL, "STOREM", << "(" >> \o over \o << ")" >>, R(0), Nothing),
           Ln(NULL, "CMP", R(0), R(8), Nothing) } }

Programs ==
    ForwardJumps \cup CountingLoops \cup Refused \cup { SignedCompare }
        \cup FailingLate \cup UnknownLate \cup Origins \cup LabelTables
        \cup Duplicates \cup HighOrigins \cup Indexed

\* ram_init(&ram); cpu_init(&cpu); and assemble's own initialisations
MainEntered ==
    /\ lines \in Programs
    /\ phase = "pass1"
    /\ i = 1
    /\ pc_cursor = N(0)
    /\ start_set = FALSE
    /\ labels = << >>
    /\ range = initialize_assembly
    /\ cpu = cpu_init
    /\ ram = ram_init
    /\ result = "none"
    /\ at1 = << >>
    /\ at2 = << >>
    /\ last = NoLast
    /\ earlier = << >>

Init == MainEntered /\ OnlyTheEngine

Next == NextAssemble \/ NextRun

Spec == Init /\ [][Next]_vars

\* main has returned: assemble failed, or cpu_run came back
Terminated == phase \in { "failed", "returned" }

\* The driver is one sequential thread and goes on until main returns: weak
\* fairness of Next.  Next is enabled exactly in the states that are not
\* Terminated, so WF_vars(Next), which is
\*     []<>(~ENABLED <<Next>>_vars) \/ []<><<Next>>_vars,
\* is written with that enabling condition as a state predicate.
SpecFair == Spec /\ ([]<>Terminated \/ []<><<Next>>_vars)

(***************************************************************************)
(* Properties of cpu_run, checked under SpecRun.  `last` holds the CPU and *)
(* Memory the instruction executed last found, so a statement about one    *)
(* instruction is a statement about `last` and the present state.          *)
(***************************************************************************)
Stepped == last.op[1] >= 0

LastIs(opcode) == last.op = N(opcode)

\* word k of the instruction executed last
LastWord(k) == get_value_in_ram(last.ram, last.cpu, k)

LastIsArith == \E o \in ArithOpcodes : LastIs(o)

NoRegister(w) == LessEq(N(MAX_REGISTERS), w)
NoAddressRegister(w) == LessEq(N(MAX_ADDRESS_REGISTERS), w)
OutsideMemory(w) == LessEq(N(RAM_SIZE), w)

\* the second operand of the arithmetic instruction executed last
LastSource ==
    IF LastWord(2) = N(OPERAND_REGISTER)
    THEN last.cpu.registers[Val(LastWord(3))] ELSE LastWord(3)

\* the arithmetic instruction executed last names registers and a mode that exist
LastArithValid ==
    /\ LastIsArith
    /\ ~NoRegister(LastWord(1))
    /\ \/ LastWord(2) = N(OPERAND_REGISTER) /\ ~NoRegister(LastWord(3))
       \/ LastWord(2) = N(OPERAND_NUMERIC)

\* the instruction executed last has an operand word its handler must reject
LastRejected ==
    LET w1 == LastWord(1)
        w2 == LastWord(2)
        w3 == LastWord(3)
        A  == last.cpu.address_registers
    IN CASE LastIs(ISA_LOADI) -> NoRegister(w1)
         [] LastIs(ISA_LOADA) -> NoAddressRegister(w1) \/ OutsideMemory(w2)
         [] LastIs(ISA_LOADM) ->
                \/ NoRegister(w1)
                \/ IF w2 = N(ADDR_LITERAL) THEN OutsideMemory(w3)
                   ELSE NoAddressRegister(w3) \/ OutsideMemory(A[Val(w3)])
         [] LastIs(ISA_STOREM) ->
                \/ NoRegister(w3)
                \/ IF w2 = N(ADDR_LITERAL) THEN OutsideMemory(w1)
                   ELSE NoAddressRegister(w1) \/ OutsideMemory(A[Val(w1)])
         [] LastIsArith -> ~LastArithValid \/ (LastIs(ISA_DIV) /\ LastSource = N(0))
         [] LastIs(ISA_JMP) \/ LastIs(ISA_JZ) \/ LastIs(ISA_JNZ) -> OutsideMemory(w1)
         [] LastIs(ISA_CMP) -> NoRegister(w1) \/ NoRegister(w2)
         [] OTHER -> FALSE

LastUnknown == Stepped /\ \A o \in KnownOpcodes : ~LastIs(o)

\* C4: cpu.running is false whenever cpu_run has returned, by whichever
\* exit, and was true whenever the loop executed an instruction.
C4_RunningFalseIffStopped ==
    /\ phase = "returned" => ~cpu.running
    /\ Stepped => last.cpu.running

\* C5: cpu_run returns true exactly when it left the loop with the program
\* counter at the range's end or after executing HALT, and false exactly when
\* the word fetched last is no opcode or has an operand its handler rejects;
\* HALT clears running and leaves the rest of the CPU and Memory as they were.
C5_RunResult ==
    /\ phase = "returned" =>
          /\ result = "true" <=> (cpu.pc = range.end_address \/ LastIs(ISA_HALT))
          /\ result = "false" <=> (LastUnknown \/ LastRejected)
    /\ LastIs(ISA_HALT) =>
          /\ cpu = [last.cpu EXCEPT !.running = FALSE]
          /\ ram = last.ram

C5_Witness ==
    /\ phase = "returned"
    /\ result = "true"
    /\ LastIs(ISA_HALT)
    /\ cpu.pc # range.end_address
    /\ last.cpu.running

\* C6: a DIV whose divisor is 0, read from a register or embedded, leaves
\* the destination register (and every other) as it was, clears running and
\* makes cpu_run return false.
C6_DivByZero ==
    (LastIs(ISA_DIV) /\ LastArithValid /\ LastSource = N(0)) =>
        /\ phase = "returned"
        /\ result = "false"
        /\ ~cpu.running
        /\ cpu.registers = last.cpu.registers

C6_Witness ==
    /\ LastIs(ISA_DIV)
    /\ LastWord(1) = N(0)
    /\ LastWord(2) = N(OPERAND_REGISTER)
    /\ LastWord(3) = N(1)
    /\ last.cpu.registers[1] = N(0)
    /\ last.cpu.registers[0] = MaxWord
    /\ cpu.registers[0] = MaxWord
    /\ result = "false"

\* the instruction executed last has a register-index word of 8 or more
LastBadRegisterWord ==
    \/ LastIs(ISA_LOADI) /\ NoRegister(LastWord(1))
    \/ LastIs(ISA_LOADM) /\ NoRegister(LastWord(1))
    \/ LastIs(ISA_STOREM) /\ NoRegister(LastWord(3))
    \/ LastIsArith /\ NoRegister(LastWord(1))
    \/ LastIsArith /\ LastWord(2) = N(OPERAND_REGISTER) /\ NoRegister(LastWord(3))
    \/ LastIs(ISA_CMP) /\ (NoRegister(LastWord(1)) \/ NoRegister(LastWord(2)))

\* C7: an instruction with a register-index word of 8 or more makes cpu_run
\* return false at once, with running false and every general register as
\* it was before the instruction.
C7_BadRegisterIndex ==
    LastBadRegisterWord =>
        /\ phase = "returned"
        /\ result = "false"
        /\ ~cpu.running
        /\ cpu.registers = last.cpu.registers

C7_Witness ==
    /\ LastIs(ISA_CMP)
    /\ LastWord(1) = N(1)
    /\ LastWord(2) = N(MAX_REGISTERS)
    /\ phase = "returned"
    /\ result = "false"

\* bit k (0 = least significant) of a 32-bit word
Bit(x, k) == IF k < 16 THEN (x[2] \div (2 ^ k)) % 2 ELSE (x[1] \div (2 ^ (k - 16))) % 2

\* k * x for k in 0..255, exactly
Scale(k, x) == Plus(<< k * x[1], 0 >>, N(k * x[2]))

\* 256 * x, exactly
Times256(x) == << x[1] * 256 + (x[2] \div 256), (x[2] % 256) * 256 >>

\* byte k (0 = least significant) of a 32-bit word
Byte(x, k) == IF k < 2 THEN (x[2] \div (256 ^ k)) % 256 ELSE (x[1] \div (256 ^ (k - 2))) % 256

\* a * b, exactly (Horner over the bytes of a), where the product is below 2^47
Product(a, b) ==
    Plus(Times256(Plus(Times256(Plus(Times256(Scale(Byte(a, 3), b)),
                                     Scale(Byte(a, 2), b))),
                       Scale(Byte(a, 1), b))),
         Scale(Byte(a, 0), b))

\* (a * b) mod 2^32, reducing after every byte of a
ProductMod(a, b) ==
    U32(Plus(Times256(U32(Plus(Times256(U32(Plus(Times256(U32(Scale(Byte(a, 3), b))),
                                                 Scale(Byte(a, 2), b)))),
                               Scale(Byte(a, 1), b)))),
             Scale(Byte(a, 0), b)))

IsWord(x) == x[1] \in 0..65535 /\ x[2] \in 0..65535

\* x and y differ by a multiple of 2^32 (x, y within 2^32 of each other)
SameMod32(x, y) == Minus(x, y) \in { << -65536, 0 >>, N(0), << 65536, 0 >> }

\* res is what the arithmetic instruction of the given opcode yields on a and b
ArithResult(opcode, a, b, res) ==
    /\ IsWord(res)
    /\ CASE opcode = ISA_ADD -> SameMod32(res, Plus(a, b))
         [] opcode = ISA_SUB -> SameMod32(Plus(res, b), a)
         [] opcode = ISA_MLP -> res = ProductMod(a, b)
         [] opcode = ISA_DIV -> /\ LessEq(Product(res, b), a)
                                /\ Less(a, Plus(Product(res, b), b))
         [] opcode = ISA_AND ->
                \A k \in 0..31 : Bit(res, k) = 1 <=> (Bit(a, k) = 1 /\ Bit(b, k) = 1)
         [] opcode = ISA_OR ->
                \A k \in 0..31 : Bit(res, k) = 1 <=> (Bit(a, k) = 1 \/ Bit(b, k) = 1)
         [] opcode = ISA_XOR ->
                \A k \in 0..31 : Bit(res, k) = 1 <=> (Bit(a, k) # Bit(b, k))

C10_SignedCompare ==
    (LastIs(ISA_CMP) /\ ~NoRegister(LastWord(1)) /\ ~NoRegister(LastWord(2))) =>
        LET a == I32(last.cpu.registers[Val(LastWord(1))])
            b == I32(last.cpu.registers[Val(LastWord(2))])
        IN /\ cpu.zero_flag = (a = b)
           /\ cpu.negative_flag = Less(a, b)
           /\ cpu.registers = last.cpu.registers
           /\ cpu.address_registers = last.cpu.address_registers
           /\ cpu.pc = U32(Plus(last.cpu.pc, N(3)))

(***************************************************************************)
(* Properties of the assembler and of the assembled program's run,         *)
(* checked under Spec.  at1[k] and at2[k] are pass 1's cursor and pass 2's *)
(* program counter on reaching line k; entry Len(lines) + 1 is the value   *)
(* at the end of the pass.                                                 *)
(***************************************************************************)
IsInstruction(l) == get_opcode(l.mn) # FAILURE

IsJump(l) == l.mn \in { "JMP", "JZ", "JNZ" }

\* the first line from m on that holds an instruction
FollowingInstruction(m) ==
    CHOOSE j \in m..Len(lines) :
        /\ IsInstruction(lines[j])
        /\ \A h \in m..(j - 1) : ~IsInstruction(lines[h])

\* C1: when a source has assembled, the target word of every jump whose
\* operand is a label defined on a later line is the address at which pass 2
\* emitted the instruction following that label, whatever lies in between.
C1_ForwardLabels ==
    phase = "assembled" =>
        \A k \in 1..Len(lines), m \in 1..Len(lines) :
            (/\ k < m
             /\ IsJump(lines[k])
             /\ lines[m].label # NULL
             /\ lines[m].label = lines[k].op1
             /\ \E j \in m..Len(lines) : IsInstruction(lines[j]))
            => Cell(ram, Val(at2[k]) + 1) = at2[FollowingInstruction(m)]

\* the number of words of an instruction, per opcode
WordCount(opcode) ==
    CASE opcode \in { ISA_LOADI, ISA_LOADA, ISA_CMP } -> 3
      [] opcode \in { ISA_LOADM, ISA_STOREM } \cup ArithOpcodes -> 4
      [] opcode \in { ISA_JMP, ISA_JZ, ISA_JNZ } -> 2
      [] opcode = ISA_HALT -> 1

\* the instruction executed last succeeded without transferring control
LastFellThrough ==
    /\ Stepped
    /\ last.ret
    /\ ~LastUnknown
    /\ ~LastIs(ISA_HALT)
    /\ ~LastIs(ISA_JMP)
    /\ LastIs(ISA_JZ) => ~last.cpu.zero_flag
    /\ LastIs(ISA_JNZ) => last.cpu.zero_flag

\* C2: for every opcode, what pass 1 adds to its cursor, the number of words
\* pass 2 emits and what the interpreter's handler adds to the program
\* counter when it does not transfer control are the same number: 3 for
\* LOADI, LOADA and CMP, 4 for LOADM, STOREM and the arithmetic and bitwise
\* ops, 2 for the jumps, 1 for HALT (the two passes only).
C2_WordCounts ==
    /\ \A k \in 1..Len(lines) :
          IsInstruction(lines[k]) =>
            LET n == N(WordCount(get_opcode(lines[k].mn)))
            IN /\ k + 1 <= Len(at1) => at1[k + 1] = Plus(at1[k], n)
               /\ k + 1 <= Len(at2) => at2[k + 1] = Plus(at2[k], n)
    /\ LastFellThrough =>
          \A o \in KnownOpcodes :
              LastIs(o) => cpu.pc = Plus(last.cpu.pc, N(WordCount(o)))

\* op applied to a and b, for an arithmetic or bitwise opcode
Apply(opcode, a, b) ==
    CASE opcode = ISA_ADD -> AddOp(a, b)
      [] opcode = ISA_SUB -> SubOp(a, b)
      [] opcode = ISA_MLP -> Times32(a, b)
      [] opcode = ISA_DIV -> Div32(a, b)
      [] opcode = ISA_AND -> BitAnd32(a, b)
      [] opcode = ISA_OR -> BitOr32(a, b)
      [] opcode = ISA_XOR -> BitXor32(a, b)

Advance(c, n) == [c EXCEPT !.pc = U32(Plus(c.pc, N(n)))]

\* What source line l denotes, as [ret, cpu, ram] on CPU c and Memory
\* cells: the operation of its mnemonic on the registers, address and
\* literal it names (l.means).  A label operand denotes the address the
\* label table holds for it.
Denotes(l, c, cells, build) ==
    LET op  == l.means.op
        reg == l.means.reg
        arg == l.means.arg
        value == IF l.means.via = "register" THEN c.registers[Val(arg)] ELSE arg
        address == IF l.means.via = "register"
                   THEN c.address_registers[Val(arg)] ELSE arg
        target == IF l.means.via = "label"
                  THEN U32(find_label_addr(l.op1, labels)) ELSE arg
        diff == SignedDiff(I32(c.registers[reg]), I32(value), build)
    IN CASE op = ISA_LOADI ->
              Done(cells, Advance([c EXCEPT !.registers[reg] = arg,
                                            !.zero_flag = (arg = N(0))], 3))
         [] op = ISA_LOADA ->
              Done(cells, Advance([c EXCEPT !.address_registers[reg] = arg], 3))
         [] op = ISA_LOADM ->
              IF OutsideMemory(address) THEN Fail(cells, Stop(c))
              ELSE Done(cells,
                        Advance([c EXCEPT !.registers[reg] = Cell(cells, Val(address)),
                                          !.zero_flag = (Cell(cells, Val(address)) = N(0))],
                                4))
         [] op = ISA_STOREM ->
              IF OutsideMemory(address) THEN Fail(cells, Stop(c))
              ELSE Done(SetCell(cells, Val(address), c.registers[reg]), Advance(c, 4))
         [] op \in ArithOpcodes ->
              IF op = ISA_DIV /\ value = N(0) THEN Fail(cells, Stop(c))
              ELSE Done(cells,
                        Advance([c EXCEPT !.registers[reg] =
                                              Apply(op, c.registers[reg], value),
                                          !.zero_flag =
                                              (Apply(op, c.registers[reg], value) = N(0))],
                                4))
         [] op = ISA_CMP ->
              Done(cells, Advance([c EXCEPT !.zero_flag = (diff = N(0)),
                                            !.negative_flag = Less(diff, N(0))], 3))
         [] op \in { ISA_JMP, ISA_JZ, ISA_JNZ } ->
              IF OutsideMemory(target) THEN Fail(cells, Stop(c))
              ELSE IF \/ op = ISA_JMP
                      \/ op = ISA_JZ /\ c.zero_flag
                      \/ op = ISA_JNZ /\ ~c.zero_flag
                THEN Done(cells, [c EXCEPT !.pc = target])
              ELSE Done(cells, Advance(c, 2))
         [] op = ISA_HALT -> Done(cells, Stop(c))

\* the words pass 2 emits for line k at the address it reached it at
EmittedFor(k) ==
    Translate([ok |-> TRUE, cpu |-> [cpu_init EXCEPT !.pc = at2[k]], ram |-> ram_init],
              get_opcode(lines[k].mn), lines[k]).ram

\* the instruction executed last is line k: the program counter was where
\* pass 2 emitted line k, and Memory held there the words emitted for it (no
\* word of the line fell behind the last cell, and no later line and no
\* store had overwritten them)
LastWasLine(k) ==
    /\ Stepped
    /\ Len(at2) > Len(lines)
    /\ IsInstruction(lines[k])
    /\ last.cpu.pc = at2[k]
    /\ \A a \in DOMAIN EmittedFor(k) :
           a < RAM_SIZE /\ Cell(last.ram, a) = EmittedFor(k)[a]

\* C3: one interpreter step on the words the assembler emitted for a source
\* line does what the line denotes, for every instruction form: same
\* verdict, same CPU, same Memory.
C3_LayoutAgreement ==
    \A k \in 1..Len(lines) :
        LastWasLine(k) =>
            \E build \in SignedOverflowBuilds :
                /\ last.ret = Denotes(lines[k], last.cpu, last.ram, build).ret
                /\ cpu = Denotes(lines[k], last.cpu, last.ram, build).cpu
                /\ ram = Denotes(lines[k], last.cpu, last.ram, build).ram

C3_Witness ==
    \E k \in 1..Len(lines) :
        /\ LastWasLine(k)
        /\ lines[k].means = Means(ISA_STOREM, 0, "register", N(1))
        /\ LastIs(ISA_STOREM)
        /\ Cell(last.ram, 64) = N(0)
        /\ Cell(ram, 64) = N(6)

\* the counting loop has returned with success, R0 = n, the zero flag set
\* and running cleared
CountedTo(n) ==
    /\ phase = "returned"
    /\ result = "true"
    /\ cpu.registers[0] = N(n)
    /\ cpu.zero_flag
    /\ ~cpu.running

\* C8: for every n in 1..MaxN, assembling and running the counting loop
\* from an initialised CPU and Memory ends with cpu_run returning true,
\* R0 = n, the zero flag true and running false.
C8_CountingLoop ==
    \A n \in 1..MaxN : (lines = CountingLoop(n)) ~> CountedTo(n)

C8_Witness == lines = CountingLoop(MaxN) /\ CountedTo(MaxN) /\ MaxN > 1


(***************************************************************************)
(* Jumps, Memory transfers, mode tags and unknown opcodes, checked under   *)
(* SpecRun.                                                                *)
(***************************************************************************)
\* the CPU apart from its program counter and running bit is as it was
\* before the instruction executed last
LastKeptRegistersAndFlags ==
    /\ cpu.registers = last.cpu.registers
    /\ cpu.address_registers = last.cpu.address_registers
    /\ cpu.zero_flag = last.cpu.zero_flag
    /\ cpu.negative_flag = last.cpu.negative_flag

\* the conditional jump executed last found its flag condition true
LastTaken ==
    IF LastIs(ISA_JZ) THEN last.cpu.zero_flag ELSE ~last.cpu.zero_flag

\* C11: a JZ (JNZ) with the zero flag set (clear) makes the program counter
\* the target word; otherwise the program counter advances by 2 and the
\* run continues, whatever the target word is; registers, address
\* registers, flags and Memory are unchanged either way.
C11_ConditionalJumps ==
    (LastIs(ISA_JZ) \/ LastIs(ISA_JNZ)) =>
        /\ last.ret
        /\ cpu.running
        /\ cpu.pc = IF LastTaken THEN LastWord(1)
                    ELSE U32(Plus(last.cpu.pc, N(2)))
        /\ LastKeptRegistersAndFlags
        /\ ram = last.ram

\* the address a LOADM or STOREM with the given mode and address words means
Resolved(mode, word) ==
    IF mode = N(ADDR_LITERAL) THEN word
    ELSE last.cpu.address_registers[Val(word)]

\* the mode and address words name an address that exists, by a mode that exists
ResolvesValid(mode, word) ==
    /\ mode = N(ADDR_LITERAL) \/ (mode = N(ADDR_REGISTER) /\ ~NoAddressRegister(word))
    /\ ~OutsideMemory(Resolved(mode, word))

LastLoadmValid ==
    LastIs(ISA_LOADM) /\ ~NoRegister(LastWord(1)) /\ ResolvesValid(LastWord(2), LastWord(3))

LastStoremValid ==
    LastIs(ISA_STOREM) /\ ~NoRegister(LastWord(3)) /\ ResolvesValid(LastWord(2), LastWord(1))

LastBadModeTag ==
    /\ LastIsArith \/ LastIs(ISA_LOADM) \/ LastIs(ISA_STOREM)
    /\ LastWord(2) # N(0)
    /\ LastWord(2) # N(1)

\* C13: an arithmetic or bitwise instruction, a LOADM or a STOREM whose mode
\* tag is neither 0 nor 1 makes cpu_run return false without writing a
\* register or a Memory cell.
C13_ModeTags ==
    LastBadModeTag =>
        /\ phase = "returned"
        /\ result = "false"
        /\ cpu.registers = last.cpu.registers
        /\ ram = last.ram

\* C14: fetching a word that is none of the 16 opcodes clears running and
\* makes cpu_run return false, with the program counter, the registers,
\* the address registers, the flags and Memory as they were.
C14_UnknownOpcode ==
    LastUnknown =>
        /\ phase = "returned"
        /\ result = "false"
        /\ ~cpu.running
        /\ cpu = [last.cpu EXCEPT !.running = FALSE]
        /\ ram = last.ram

C14_Witness ==
    /\ LastUnknown
    /\ last.op = N(16)
    /\ last.cpu.running
    /\ phase = "returned"
    /\ cpu.pc = last.cpu.pc


(***************************************************************************)
(* cpu_run as a function of the Memory and CPU it is entered with, for     *)
(* statements about whole runs: the switch of one iteration, and the loop  *)
(* around it, under one build's reading of CMP.                            *)
(***************************************************************************)
\* switch (instruction) { case ISA_x: handle_x_execution ... default: ... }
Execute(cells, c, build) ==
    LET instruction == get_value_in_ram(cells, c, 0)
    IN CASE instruction = N(ISA_LOADI) -> handle_loadi_execution(cells, c)
         [] instruction = N(ISA_LOADA) -> handle_loada_execution(cells, c)
         [] instruction = N(ISA_LOADM) -> handle_loadm_execution(cells, c)
         [] instruction = N(ISA_STOREM) -> handle_storem_execution(cells, c)
         [] instruction = N(ISA_ADD) -> handle_add_execution(cells, c)
         [] instruction = N(ISA_SUB) -> handle_sub_execution(cells, c)
         [] instruction = N(ISA_MLP) -> handle_mlp_execution(cells, c)
         [] instruction = N(ISA_DIV) -> handle_div_execution(cells, c)
         [] instruction = N(ISA_AND) -> handle_and_execution(cells, c)
         [] instruction = N(ISA_OR) -> handle_or_execution(cells, c)
         [] instruction = N(ISA_XOR) -> handle_xor_execution(cells, c)
         [] instruction = N(ISA_JMP) -> handle_jmp_execution(cells, c)
         [] instruction = N(ISA_JZ) -> handle_jz_execution(cells, c)
         [] instruction = N(ISA_JNZ) -> handle_jnz_execution(cells, c)
         [] instruction = N(ISA_CMP) -> handle_cmp_execution(cells, c, build)
         [] instruction = N(ISA_HALT) -> Done(cells, Stop(c))
         [] OTHER -> Fail(cells, Stop(c))

\* the iterations a run of one of the Programs takes at most
MaxSteps == 3 * MaxN + 8

\* while (cpu->running && cpu->pc != assembly_range.end_address) { ... }
\* return true;   -- given up (ret "unfinished") after `fuel` iterations
RECURSIVE RunLoop(_, _, _, _, _)
RunLoop(cells, c, rng, build, fuel) ==
    IF ~(c.running /\ c.pc # rng.end_address) THEN Done(cells, c)
    ELSE IF fuel = 0 THEN [ret |-> "unfinished", cpu |-> c, ram |-> cells]
    ELSE LET h == Execute(cells, c, build)
         IN IF h.ret THEN RunLoop(h.ram, h.cpu, rng, build, fuel - 1) ELSE h

\* bool cpu_run(RAM *ram, CPU *cpu, AssemblyRange assembly_range)
cpu_run(cells, c, rng, build) ==
    RunLoop(cells, [c EXCEPT !.pc = rng.start_address, !.running = TRUE],
            rng, build, MaxSteps)

is_address_valid_Inclusive(address) == LessEq(address, N(RAM_SIZE))

\* bool is_address_valid(const RAM *ram, const uint32_t address)
is_address_valid(address) == Less(address, N(RAM_SIZE))

\* bool ram_store(RAM *ram, const uint32_t address, const uint32_t value)
ram_store(cells, address, value) ==
    IF ~is_address_valid(address) THEN [ret |-> FALSE, ram |-> cells]
    ELSE [ret |-> TRUE, ram |-> SetCell(cells, Val(address), value)]

\* Fault for C16: a load that returns true without assigning *output
ram_load_Unassigned(cells, address, output) ==
    IF ~is_address_valid(address) THEN [ret |-> FALSE, output |-> output]
    ELSE [ret |-> TRUE, output |-> output]

\* bool ram_load(RAM *ram, const uint32_t address, uint32_t *output)
ram_load(cells, address, output) ==
    IF ~is_address_valid(address) THEN [ret |-> FALSE, output |-> output]
    ELSE [ret |-> TRUE, output |-> Cell(cells, Val(address))]

\* memset(&ram->cells[start], 0, count * sizeof(ram->cells[0]))
memset(cells, start, count) ==
    [a \in DOMAIN cells |-> IF start <= a /\ a < start + count THEN N(0) ELSE cells[a]]

\* Fault for C18: a clear that stops one cell short of end
ram_free_ExclusiveEnd(cells, start, end) ==
    IF ~is_address_valid(start) \/ ~is_address_valid(end) \/ Less(end, start)
    THEN [ret |-> FALSE, ram |-> cells]
    ELSE [ret |-> TRUE, ram |-> memset(cells, Val(start), Val(end) - Val(start))]

\* bool ram_free(RAM *ram, uint32_t start, uint32_t end)
ram_free(cells, start, end) ==
    IF ~is_address_valid(start) \/ ~is_address_valid(end) \/ Less(end, start)
    THEN [ret |-> FALSE, ram |-> cells]
    ELSE [ret |-> TRUE, ram |-> memset(cells, Val(start), Val(end) - Val(start) + 1)]

\* the addresses and values the caller passes
ApiAddresses == { N(0), N(1), N(RAM_SIZE - 1), N(RAM_SIZE), MaxWord }
ApiValues == { N(0), N(7), MaxWord }

\* the addresses of [0, RAM_SIZE) among a set of words
Valid(S) == { Val(a) : a \in { x \in S : Less(x, N(RAM_SIZE)) } }

\* `written` after a store of value to address
Noted(address, value) ==
    IF Less(address, N(RAM_SIZE))
    THEN [a \in (DOMAIN written) \cup { Val(address) } |->
              IF a = Val(address) THEN value ELSE written[a]]
    ELSE written

\* `written` after a clear of start .. end
Forgotten(start, end) ==
    [a \in { x \in DOMAIN written : Less(N(x), start) \/ Less(end, N(x)) } |->
         written[a]]

Called(op, address, end, value, ret, output) ==
    [op |-> op, address |-> address, end |-> end, value |-> value,
     before |-> ram, ret |-> ret, output_before |-> call.output, output |-> output]

engineVars ==
    << lines, phase, i, pc_cursor, start_set, labels, range, cpu, result, at1,
       at2, last, earlier >>

RamStore ==
    \E address \in ApiAddresses, value \in ApiValues :
        /\ ram' = ram_store(ram, address, value).ram
        /\ call' = Called("ram_store", address, N(0), value,
                          ram_store(ram, address, value).ret, call.output)
        /\ written' = Noted(address, value)
        /\ UNCHANGED << engineVars, lock, callers >>

RamLoad ==
    \E address \in ApiAddresses :
        /\ call' = Called("ram_load", address, N(0), N(0),
                          ram_load(ram, address, call.output).ret,
                          ram_load(ram, address, call.output).output)
        /\ UNCHANGED << engineVars, ram, lock, callers, written >>

RamFree ==
    \E start \in ApiAddresses, end \in ApiAddresses :
        /\ ram' = ram_free(ram, start, end).ram
        /\ call' = Called("ram_free", start, end, N(0),
                          ram_free(ram, start, end).ret, call.output)
        /\ written' = Forgotten(start, end)
        /\ UNCHANGED << engineVars, lock, callers >>

NextRam == RamStore \/ RamLoad \/ RamFree

\* the engine is not running: only the Memory exists
EngineIdle ==
    /\ lines = << >>
    /\ phase = "memory"
    /\ i = 0
    /\ pc_cursor = N(0)
    /\ start_set = FALSE
    /\ labels = << >>
    /\ range = initialize_assembly
    /\ cpu = cpu_init
    /\ result = "none"
    /\ at1 = << >>
    /\ at2 = << >>
    /\ last = NoLast
    /\ earlier = << >>

\* ram_init(&ram);
InitRam == EngineIdle /\ ram = ram_init /\ OnlyTheEngine

SpecRam == InitRam /\ [][NextRam]_vars

\* C16: ram_store to an address in [0, 65536) returns true, leaves the value
\* in that cell and changes no other cell; ram_load from an address whose
\* last store has not been followed by a store or clear covering it
\* returns true and yields the value stored.
C16_StoreLoadRoundTrip ==
    /\ (call.op = "ram_store" /\ Less(call.address, N(RAM_SIZE))) =>
          /\ call.ret
          /\ Cell(ram, Val(call.address)) = call.value
          /\ \A a \in Valid(ApiAddresses) \ { Val(call.address) } :
                 Cell(ram, a) = Cell(call.before, a)
          /\ DOMAIN ram \subseteq Valid(ApiAddresses)
    /\ (call.op = "ram_load" /\ Less(call.address, N(RAM_SIZE))
           /\ Val(call.address) \in DOMAIN written) =>
          /\ call.ret
          /\ call.output = written[Val(call.address)]

\* a load of the last cell yields the value stored there two stores ago
C16_Witness ==
    /\ call.op = "ram_load"
    /\ call.address = N(RAM_SIZE - 1)
    /\ call.output = MaxWord
    /\ call.output_before = N(7)
    /\ DOMAIN written = { 0, RAM_SIZE - 1 }
    /\ written[0] = N(7)

\* C17: ram_store and ram_load with an address of 65536 or more return
\* false, change no Memory cell and leave the load's output variable alone.
C17_OutOfRange ==
    (call.op \in { "ram_store", "ram_load" } /\ LessEq(N(RAM_SIZE), call.address)) =>
        /\ ~call.ret
        /\ ram = call.before
        /\ call.output = call.output_before

C17_Witness ==
    /\ call.op = "ram_load"
    /\ call.address = N(RAM_SIZE)
    /\ ~call.ret
    /\ call.output = N(7)
    /\ Cell(ram, 0) = MaxWord

\* the clear called last has bounds in [0, 65536) with start <= end
ClearValid ==
    /\ Less(call.address, N(RAM_SIZE))
    /\ Less(call.end, N(RAM_SIZE))
    /\ LessEq(call.address, call.end)

\* C18: ram_free(start, end) with start <= end, both in [0, 65536), returns
\* true, leaves 0 in every cell of start .. end and every other cell as it
\* was; with start > end or a bound of 65536 or more it returns false and
\* changes no cell.
C18_ClearRange ==
    call.op = "ram_free" =>
        IF ClearValid
        THEN /\ call.ret
             /\ \A a \in Valid(ApiAddresses) :
                    Cell(ram, a) = IF Val(call.address) <= a /\ a <= Val(call.end)
                                   THEN N(0) ELSE Cell(call.before, a)
             /\ DOMAIN ram \subseteq Valid(ApiAddresses)
        ELSE ~call.ret /\ ram = call.before

\* a clear of 0 .. 1 that zeroes two written cells and spares the last cell
C18_Witness ==
    /\ call.op = "ram_free"
    /\ call.address = N(0)
    /\ call.end = N(1)
    /\ Cell(call.before, 0) = N(7)
    /\ Cell(call.before, 1) = MaxWord
    /\ Cell(ram, 0) = N(0)
    /\ Cell(ram, 1) = N(0)
    /\ Cell(ram, RAM_SIZE - 1) = N(7)


(***************************************************************************)
(* The Memory operations called by several threads at once.  A call is     *)
(* the steps other threads can tell apart: entry (the checks of the        *)
(* arguments, which touch nothing shared), taking the lock, the access to  *)
(* the cells, and releasing the lock and returning.  pthread_rwlock_wrlock *)
(* waits until nobody holds the lock, pthread_rwlock_rdlock until no       *)
(* writer holds it.                                                        *)
(***************************************************************************)
MaxCallers == 2

\* a caller between calls; seen is history: the values the cell a load
\* reads has held since the call was entered
Idle ==
    [op |-> "none", at |-> "idle", address |-> N(0), end |-> N(0), value |-> N(0),
     val |-> N(0), output |-> N(0), ret |-> TRUE, seen |-> {}]

SharedAddresses == { N(0), N(1), N(RAM_SIZE) }

\* the cell at an address, for the history (0 where there is no such cell)
get_cell(cells, address) ==
    IF is_address_valid(address) THEN Cell(cells, Val(address)) ELSE N(0)
SharedValues == { N(1), N(2) }

Between(t) == callers[t].at \in { "idle", "returned" }

\* the caller's record once its call has returned: its arguments and locals
\* are gone, its output variable stays
Returned(t, ret, output, seen) ==
    [Idle EXCEPT !.op = callers[t].op, !.at = "returned", !.ret = ret,
                 !.output = output, !.seen = seen]

\* the call returns false from its checks, or goes on to take the lock
Entered(t, ok, how, record) ==
    IF ok THEN [record EXCEPT !.at = how, !.output = callers[t].output]
    ELSE [Idle EXCEPT !.op = record.op, !.at = "returned", !.ret = FALSE,
                      !.output = callers[t].output]

\* ram_store up to pthread_rwlock_wrlock
StoreEnter(t) ==
    /\ Between(t)
    /\ \E address \in SharedAddresses, value \in SharedValues :
          callers' = [callers EXCEPT ![t] =
              Entered(t, is_address_valid(address), "wrlock",
                      [Idle EXCEPT !.op = "ram_store", !.address = address,
                                   !.value = value])]
    /\ UNCHANGED << engineVars, ram, lock, call, written >>

\* ram_load up to pthread_rwlock_rdlock
LoadEnter(t) ==
    /\ Between(t)
    /\ \E address \in SharedAddresses :
          callers' = [callers EXCEPT ![t] =
              Entered(t, is_address_valid(address), "rdlock",
                      [Idle EXCEPT !.op = "ram_load", !.address = address,
                                   !.seen = { get_cell(ram, address) }])]
    /\ UNCHANGED << engineVars, ram, lock, call, written >>

\* ram_free up to pthread_rwlock_wrlock
FreeEnter(t) ==
    /\ Between(t)
    /\ \E start \in SharedAddresses, end \in SharedAddresses :
          callers' = [callers EXCEPT ![t] =
              Entered(t, ~(~is_address_valid(start) \/ ~is_address_valid(end)
                             \/ Less(end, start)),
                      "wrlock",
                      [Idle EXCEPT !.op = "ram_free", !.address = start,
                                   !.end = end])]
    /\ UNCHANGED << engineVars, ram, lock, call, written >>

\* pthread_rwlock_wrlock(&ram->lock) returns
WriteLock(t) ==
    /\ callers[t].at = "wrlock"
    /\ lock.writer = 0
    /\ lock.readers = {}
    /\ lock' = [lock EXCEPT !.writer = t]
    /\ callers' = [callers EXCEPT ![t].at = "critical"]
    /\ UNCHANGED << engineVars, ram, call, written >>

\* Fault for C19: a read lock granted while a writer holds the lock
ReadLock_Barging(t) ==
    /\ callers[t].at = "rdlock"
    /\ lock' = [lock EXCEPT !.readers = @ \cup { t }]
    /\ callers' = [callers EXCEPT ![t].at = "critical"]
    /\ UNCHANGED << engineVars, ram, call, written >>

\* pthread_rwlock_rdlock(&ram->lock) returns
ReadLock(t) ==
    /\ callers[t].at = "rdlock"
    /\ lock.writer = 0
    /\ lock' = [lock EXCEPT !.readers = @ \cup { t }]
    /\ callers' = [callers EXCEPT ![t].at = "critical"]
    /\ UNCHANGED << engineVars, ram, call, written >>

\* the loads in progress on a cell of first .. final see the value written
Witnessed(t, first, final, value) ==
    [u \in DOMAIN callers |->
        IF u = t THEN [callers[t] EXCEPT !.at = "unlock"]
        ELSE IF /\ callers[u].op = "ram_load"
                /\ callers[u].at \in { "rdlock", "critical", "unlock" }
                /\ LessEq(first, callers[u].address)
                /\ LessEq(callers[u].address, final)
             THEN [callers[u] EXCEPT !.seen = @ \cup { value }]
             ELSE callers[u]]

\* ram->cells[address] = value;
StoreWrite(t) ==
    /\ callers[t].op = "ram_store"
    /\ callers[t].at = "critical"
    /\ ram' = SetCell(ram, Val(callers[t].address), callers[t].value)
    /\ callers' = Witnessed(t, callers[t].address, callers[t].address,
                            callers[t].value)
    /\ UNCHANGED << engineVars, lock, call, written >>

\* const uint32_t val = ram->cells[address];
LoadRead(t) ==
    /\ callers[t].op = "ram_load"
    /\ callers[t].at = "critical"
    /\ callers' = [callers EXCEPT ![t].at = "unlock",
                                  ![t].val = Cell(ram, Val(callers[t].address))]
    /\ UNCHANGED << engineVars, ram, lock, call, written >>

\* count = end - start + 1; memset(&ram->cells[start], 0, count * ...);
FreeClear(t) ==
    /\ callers[t].op = "ram_free"
    /\ callers[t].at = "critical"
    /\ ram' = memset(ram, Val(callers[t].address),
                     Val(callers[t].end) - Val(callers[t].address) + 1)
    /\ callers' = Witnessed(t, callers[t].address, callers[t].end, N(0))
    /\ UNCHANGED << engineVars, lock, call, written >>

\* pthread_rwlock_unlock(&ram->lock); (*output = val;) return true;
Unlock(t) ==
    /\ callers[t].at = "unlock"
    /\ lock' = IF lock.writer = t THEN [lock EXCEPT !.writer = 0]
               ELSE [lock EXCEPT !.readers = @ \ { t }]
    /\ callers' = [callers EXCEPT ![t] =
                      IF callers[t].op = "ram_load"
                      THEN Returned(t, TRUE, callers[t].val, callers[t].seen)
                      ELSE Returned(t, TRUE, callers[t].output, {})]
    /\ UNCHANGED << engineVars, ram, call, written >>

NextShared ==
    \E t \in DOMAIN callers :
        \/ StoreEnter(t) \/ LoadEnter(t) \/ FreeEnter(t)
        \/ WriteLock(t) \/ ReadLock(t)
        \/ StoreWrite(t) \/ LoadRead(t) \/ FreeClear(t)
        \/ Unlock(t)

\* ram_init(&ram); and the threads that share the RAM, each between calls
InitShared ==
    /\ EngineIdle
    /\ ram = ram_init
    /\ lock = Unlocked
    /\ callers = [t \in 1..MaxCallers |-> Idle]
    /\ call = NoCall
    /\ written = << >>

SpecShared == InitShared /\ [][NextShared]_vars

\* the caller is in its critical section: it holds the lock
Inside(t) == callers[t].at \in { "critical", "unlock" }

\* C19: while a store or a clear is in its critical section no other call
\* is in its critical section (loads may be there together), and the value
\* a load returns is one the cell held at some instant during the call.
C19_LockExclusion ==
    /\ \A t \in DOMAIN callers :
          (Inside(t) /\ callers[t].op \in { "ram_store", "ram_free" }) =>
              \A u \in DOMAIN callers \ { t } : ~Inside(u)
    /\ \A t \in DOMAIN callers :
          (callers[t].op = "ram_load" /\ callers[t].at = "returned"
               /\ callers[t].ret) =>
              callers[t].output \in callers[t].seen

\* two loads in their critical sections together, one of them on a cell
\* that a store changed after the load was entered
C19_Witness ==
    \E t \in DOMAIN callers, u \in DOMAIN callers :
        /\ t # u
        /\ Inside(t) /\ callers[t].op = "ram_load"
        /\ Inside(u) /\ callers[u].op = "ram_load"
        /\ callers[t].at = "unlock"
        /\ callers[t].val = N(2)
        /\ callers[t].seen = { N(0), N(1), N(2) }


(***************************************************************************)
(* The driver with an observer: while main assembles and runs the program, *)
(* another thread calls ram_load on the same RAM.  The assembler (emit)    *)
(* and the interpreter's handlers index ram->cells themselves and call no  *)
(* pthread_rwlock function, so their steps neither wait for the lock nor   *)
(* change it.                                                              *)
(***************************************************************************)
\* the driver's thread, were it to take the lock
Engine == MaxCallers + 1

Observe ==
    \E t \in DOMAIN callers :
        LoadEnter(t) \/ ReadLock(t) \/ LoadRead(t) \/ Unlock(t)

NextObserved == NextAssemble \/ NextRun \/ Observe

InitObserved ==
    /\ MainEntered
    /\ lock = Unlocked
    /\ callers = [t \in { 1 } |-> Idle]
    /\ call = NoCall
    /\ written = << >>

SpecObserved == InitObserved /\ [][NextObserved]_vars

\* the step fetches and executes an instruction
InterpreterStep == phase = "run" /\ last' # last

\* C20: while an observer is inside ram_load holding the shared lock neither
\* the assembler nor the interpreter writes a Memory cell, and the engine
\* writes cells only holding the exclusive lock and reads them only holding
\* the lock.
C20_EngineUnderLock ==
    [][/\ (\E t \in DOMAIN callers : Inside(t)) => ram' = ram
       /\ ram' # ram => lock.writer = Engine
       /\ InterpreterStep => (lock.writer = Engine \/ Engine \in lock.readers)]_vars


(***************************************************************************)
(* The validation predicates (src/src/validation.c) applied to inputs of   *)
(* their own: each step hands one input to the assembly-time form and to   *)
(* the run-time form, the latter on the CPU as it is.                      *)
(***************************************************************************)
\* what is_reg_index_valid_runtime(reg_index, cpu) leaves in *cpu
is_reg_index_valid_runtime_cpu(reg_index, c) ==
    IF LessEq(N(MAX_REGISTERS), reg_index) THEN [c EXCEPT !.running = FALSE] ELSE c

\* what is_addr_index_valid_runtime(addr_index, cpu) leaves in *cpu
is_addr_index_valid_runtime_cpu(addr_index, c) ==
    IF LessEq(N(MAX_ADDRESS_REGISTERS), addr_index)
    THEN [c EXCEPT !.running = FALSE] ELSE c

\* what is_addr_literal_valid_runtime(addr, cpu) leaves in *cpu
is_addr_literal_valid_runtime_cpu(addr, c) ==
    IF LessEq(N(RAM_SIZE), addr) THEN [c EXCEPT !.running = FALSE] ELSE c

\* what is_memory_access_valid_runtime(start, size, cpu) leaves in *cpu
is_memory_access_valid_runtime_cpu(start, size, c) ==
    IF ~is_memory_access_valid(start, size) THEN [c EXCEPT !.running = FALSE] ELSE c

\* the inputs: indices as int (never negative), addresses and sizes as uint32_t
IndexInputs == { 0, 1, 7, 8, 9, 255, 65536, 2147483647 }
AddressInputs == { N(0), N(1), N(RAM_SIZE - 1), N(RAM_SIZE), IntMax, IntMin, MaxWord }
StartInputs == { N(0), N(1), N(2), N(RAM_SIZE - 1), N(RAM_SIZE), MaxWord }
SizeInputs ==
    { N(0), N(1), N(2), N(RAM_SIZE - 1), N(RAM_SIZE), N(RAM_SIZE + 1),
      Minus(MaxWord, N(1)), MaxWord }

\* history: the predicate applied, its input, both verdicts, the CPU before
Validated(op, input, size, asm, ret) ==
    [op |-> op, input |-> input, size |-> size, asm |-> asm, ret |-> ret,
     before |-> cpu]

validationFrame ==
    << lines, phase, i, pc_cursor, start_set, labels, range, ram, result, at1,
       at2, last, lock, callers, written, earlier >>

ValidateRegIndex ==
    \E x \in IndexInputs :
        /\ call' = Validated("reg_index", N(x), N(0), is_reg_index_valid_asm(x),
                             is_reg_index_valid_runtime(N(x)))
        /\ cpu' = is_reg_index_valid_runtime_cpu(N(x), cpu)
        /\ UNCHANGED validationFrame

ValidateAddrIndex ==
    \E x \in IndexInputs :
        /\ call' = Validated("addr_index", N(x), N(0), is_addr_index_valid_asm(x),
                             is_addr_index_valid_runtime(N(x)))
        /\ cpu' = is_addr_index_valid_runtime_cpu(N(x), cpu)
        /\ UNCHANGED validationFrame

ValidateAddrLiteral ==
    \E a \in AddressInputs :
        /\ call' = Validated("addr_literal", a, N(0), is_addr_literal_valid(a),
                             is_addr_literal_valid_runtime(a))
        /\ cpu' = is_addr_literal_valid_runtime_cpu(a, cpu)
        /\ UNCHANGED validationFrame

ValidateMemoryAccess ==
    \E start \in StartInputs, size \in SizeInputs :
        /\ call' = Validated("memory_access", start, size,
                             is_memory_access_valid(start, size),
                             is_memory_access_valid_runtime(start, size))
        /\ cpu' = is_memory_access_valid_runtime_cpu(start, size, cpu)
        /\ UNCHANGED validationFrame

\* the interpreter sets running again when it is entered (cpu_run)
Resume ==
    /\ ~cpu.running
    /\ cpu' = [cpu EXCEPT !.running = TRUE]
    /\ call' = NoCall
    /\ UNCHANGED validationFrame

NextValidation ==
    \/ ValidateRegIndex \/ ValidateAddrIndex \/ ValidateAddrLiteral
    \/ ValidateMemoryAccess \/ Resume

InitValidation ==
    /\ EngineIdle
    /\ ram = ram_init
    /\ OnlyTheEngine

SpecValidation == InitValidation /\ [][NextValidation]_vars

\* a validation has been applied
Checked == call.op \in { "reg_index", "addr_index", "addr_literal", "memory_access" }

\* C21: on every non-negative input the assembly-time and the run-time
\* form of a validation predicate return the same verdict: true iff the
\* index is below 8, the literal address below 65536; the run-time form
\* clears running exactly when it returns false and otherwise leaves the
\* CPU as it was.
C21_ValidationFormsAgree ==
    Checked =>
        /\ call.asm = call.ret
        /\ call.op = "reg_index" => (call.ret <=> Less(call.input, N(8)))
        /\ call.op = "addr_index" => (call.ret <=> Less(call.input, N(8)))
        /\ call.op = "addr_literal" => (call.ret <=> Less(call.input, N(65536)))
        /\ cpu = IF call.ret THEN call.before
                 ELSE [call.before EXCEPT !.running = FALSE]

\* the address-register index 8, refused by both forms on a running CPU
C21_Witness ==
    /\ call.op = "addr_index"
    /\ call.input = N(8)
    /\ ~call.asm
    /\ ~call.ret
    /\ call.before.running
    /\ ~cpu.running

\* C22: is_memory_access_valid(start, size) is true iff start < 65536 and
\* start + size - 1, computed exactly, is below 65536: it is false whenever
\* the 32-bit sum wraps, and true for size 0 with a start below 65536.
C22_MemoryRangeExact ==
    call.op = "memory_access" =>
        (call.asm <=> /\ Less(call.input, N(65536))
                      /\ Less(Minus(Plus(call.input, call.size), N(1)), N(65536)))

\* a range whose last address wraps round to 0 is refused
C22_Witness ==
    /\ call.op = "memory_access"
    /\ call.input = N(2)
    /\ call.size = MaxWord
    /\ U32(Minus(Plus(call.input, call.size), N(1))) = N(0)
    /\ ~call.asm


(***************************************************************************)
(* Failing and successful assemblies, checked under Spec.                  *)
(***************************************************************************)
\* assemble failed in pass 2, on the line pass 2 reached last
FailedInPassTwo == phase = "failed" /\ at2 # << >>

\* the cells holding a word emitted for an instruction line before line k
EmittedBefore(k) ==
    UNION { DOMAIN EmittedFor(j) : j \in { h \in 1..(k - 1) : IsInstruction(lines[h]) } }

\* C23: when operand resolution fails on line k in pass 2, assemble returns
\* the error sentinel {start = 0, end = 0, error = true}, the words emitted
\* for the instruction lines before k are still in Memory, and no word has
\* been emitted for line k or a later line.
C23_FailFastNoRollback ==
    FailedInPassTwo =>
        LET k == Len(at2)
        IN /\ range = [start_address |-> N(0), end_address |-> N(0), error |-> TRUE]
           /\ i = k
           /\ \A j \in 1..(k - 1) :
                  IsInstruction(lines[j]) =>
                      \A a \in DOMAIN EmittedFor(j) :
                          Cell(ram, a) = EmittedFor(j)[a]
           /\ DOMAIN ram = EmittedBefore(k)
           /\ cpu.pc = at2[k]

\* a jump to an undefined label on line 4, after three lines (9 words) emitted
C23_Witness ==
    /\ FailedInPassTwo
    /\ Len(at2) = 4
    /\ lines[4].mn = "JZ"
    /\ DOMAIN ram = 0..8
    /\ Cell(ram, 0) = N(ISA_LOADI)
    /\ cpu.pc = N(9)


\* line k holds a mnemonic that get_opcode does not resolve
UnresolvedMnemonic(k) ==
    /\ lines[k].mn # ""
    /\ DirectiveFirstPass(lines[k]) = N(FAILURE)
    /\ get_opcode(lines[k].mn) = FAILURE

IsOrigin(k) == ~is_empty_line(lines[k]) /\ DirectiveFirstPass(lines[k]) # N(FAILURE)

Origined == { k \in 1..Len(lines) : IsOrigin(k) }

InstructionLines == { k \in 1..Len(lines) : IsInstruction(lines[k]) }

\* the value of the first origin directive, 0 if there is none
FirstOrigin ==
    IF Origined = {} THEN N(0)
    ELSE LET k == CHOOSE h \in Origined : \A j \in Origined : h <= j
         IN U32(DirectiveFirstPass(lines[k]))

\* the program counter after the words of line k, emitted at at2[k]
AfterLine(k) ==
    Translate([ok |-> TRUE, cpu |-> [cpu_init EXCEPT !.pc = at2[k]], ram |-> ram_init],
              get_opcode(lines[k].mn), lines[k]).cpu.pc

RECURSIVE WordsBefore(_)
\* the sum of the word counts of the instruction lines before line k
WordsBefore(k) ==
    IF k <= 1 THEN 0
    ELSE WordsBefore(k - 1)
           + (IF IsInstruction(lines[k - 1])
              THEN WordCount(get_opcode(lines[k - 1].mn)) ELSE 0)

\* C25: after a successful assembly start is the value of the first .org
\* directive, 0 without one; end is the program counter after the last
\* emitted word; and for a source without .org end - start is the sum of its
\* instructions' word counts and Memory[start .. end-1] holds their encodings
\* in source order.
C25_AssemblyRange ==
    phase = "assembled" =>
        /\ ~range.error
        /\ range.start_address = FirstOrigin
        /\ InstructionLines # {} =>
               LET k == CHOOSE h \in InstructionLines : \A j \in InstructionLines : j <= h
               IN range.end_address = AfterLine(k)
        /\ Origined = {} =>
               /\ Minus(range.end_address, range.start_address)
                      = N(WordsBefore(Len(lines) + 1))
               /\ DOMAIN ram
                      = Val(range.start_address)..(Val(range.end_address) - 1)
               /\ \A k \in InstructionLines :
                      /\ at2[k] = Plus(range.start_address, N(WordsBefore(k)))
                      /\ \A a \in DOMAIN EmittedFor(k) : Cell(ram, a) = EmittedFor(k)[a]


\* the lines that define a label
LabelLines == { k \in 1..Len(lines) : lines[k].label # NULL }

\* pass 1 gets to a 257th label definition: line k defines a label, 256
\* lines before it do, and no line before it stops pass 1
Overflowing(k) ==
    /\ k \in LabelLines
    /\ Cardinality(LabelLines) > MAX_LABELS
    /\ Cardinality({ j \in LabelLines : j < k }) = MAX_LABELS
    /\ \A j \in 1..(k - 1) : ~UnresolvedMnemonic(j)

C26_FullTableAssembles ==
    /\ phase = "assembled"
    /\ Len(labels) = MAX_LABELS
    /\ Cardinality(LabelLines) = MAX_LABELS
    /\ ~range.error


(***************************************************************************)
(* assemble called again on the same Memory and CPU: every call has its    *)
(* own label table (Label labels[MAX_LABELS]; size_t label_count = 0;).    *)
(***************************************************************************)
MaxCalls == 2

\* the sources of the later calls: a jump to t with no line defining t; t
\* defined behind one instruction, at address 5; t defined on the first
\* line, at address 0
AgainSources ==
    LET halt == Ln(NULL, "HALT", NULL, NULL, Means(ISA_HALT, 0, "none", N(0)))
    IN { << JumpTo(ISA_JMP, Target), halt >>,
         << JumpTo(ISA_JZ, Target), Prologue[1],
            Ln(Target, "HALT", NULL, NULL, Means(ISA_HALT, 0, "none", N(0))) >>,
         << Ln(Target, "HALT", NULL, NULL, Means(ISA_HALT, 0, "none", N(0))),
            JumpTo(ISA_JNZ, Target) >> }

\* Fault for C27: a label table that outlives the call
AssembleAgain_KeepsLabels ==
    /\ phase \in { "assembled", "failed" }
    /\ Len(earlier) < MaxCalls - 1
    /\ earlier' = Append(earlier, labels)
    /\ lines' \in AgainSources
    /\ phase' = "pass1"
    /\ i' = 1
    /\ pc_cursor' = N(0)
    /\ start_set' = FALSE
    /\ labels' = labels
    /\ range' = initialize_assembly
    /\ at1' = << >>
    /\ at2' = << >>
    /\ UNCHANGED << memVars, cpu, ram, result, last >>

\* assemble(ram, cpu, file_path) once more, up to the first pass: the range
\* initialised, an empty label table, the cursor at 0
AssembleAgain ==
    /\ phase \in { "assembled", "failed" }
    /\ Len(earlier) < MaxCalls - 1
    /\ earlier' = Append(earlier, labels)
    /\ lines' \in AgainSources
    /\ phase' = "pass1"
    /\ i' = 1
    /\ pc_cursor' = N(0)
    /\ start_set' = FALSE
    /\ labels' = << >>
    /\ range' = initialize_assembly
    /\ at1' = << >>
    /\ at2' = << >>
    /\ UNCHANGED << memVars, cpu, ram, result, last >>

NextAgain == NextAssemble \/ AssembleAgain

InitAgain == Init /\ lines \notin LabelTables

SpecAgain == InitAgain /\ [][NextAgain]_vars

\* a line of the source in hand defines the label
DefinedHere(name) == \E m \in 1..Len(lines) : lines[m].label = name

\* the source of an earlier call defined the label
DefinedEarlier(name) ==
    \E c \in 1..Len(earlier) : \E n \in 1..Len(earlier[c]) : earlier[c][n].name = name

\* line k is a jump whose operand is a label, not a literal address
JumpsToLabel(k) ==
    /\ IsJump(lines[k])
    /\ lines[k].op1 # NULL
    /\ ~(CharAt(lines[k].op1, 0) = "0" /\ CharAt(lines[k].op1, 1) \in { "x", "X" })

\* the first line of the source in hand that defines the label
Defining(name) ==
    CHOOSE m \in 1..Len(lines) :
        /\ lines[m].label = name
        /\ \A j \in 1..(m - 1) : lines[j].label # name

\* C27: in a sequence of assemble calls a jump to a label that an earlier
\* call's source defined and the source in hand does not is refused as
\* undefined: pass 2 stops at that line with the error sentinel; and every
\* entry of the label table, and every target word emitted for a label, is an
\* address pass 1 of the call in hand gave to a line of its own source.
C27_LabelsPerCall ==
    /\ \A k \in 1..Len(lines) :
           (/\ JumpsToLabel(k)
            /\ ~DefinedHere(lines[k].op1)
            /\ DefinedEarlier(lines[k].op1)) =>
               /\ phase # "assembled"
               /\ Len(at2) <= k
               /\ Len(at2) = k =>
                      /\ phase = "failed"
                      /\ range = [start_address |-> N(0), end_address |-> N(0),
                                  error |-> TRUE]
    /\ \A n \in 1..Len(labels) :
           \E m \in 1..Len(at1) :
               /\ lines[m].label = labels[n].name
               /\ at1[m] = labels[n].address
    /\ phase = "assembled" =>
           \A k \in 1..Len(lines) :
               (JumpsToLabel(k) /\ DefinedHere(lines[k].op1)) =>
                   Cell(ram, Val(at2[k]) + 1) = at1[Defining(lines[k].op1)]

\* the second call's JMP t was refused though the first call's source
\* defined t
C27_Witness ==
    /\ earlier # << >>
    /\ phase = "failed"
    /\ Len(lines) = 2
    /\ JumpsToLabel(1)
    /\ lines[1].op1 = Target
    /\ DefinedEarlier(Target)
    /\ ~DefinedHere(Target)
    /\ Len(at2) = 1

\* the second call resolved t to its own address 5, the first call had it
\* somewhere else
C27_OwnAddress ==
    /\ earlier # << >>
    /\ phase = "assembled"
    /\ Len(lines) = 3
    /\ JumpsToLabel(1)
    /\ Cell(ram, 1) = N(5)
    /\ \E n \in 1..Len(earlier[1]) :
           earlier[1][n].name = Target /\ earlier[1][n].address # N(5)


(***************************************************************************)
(* What one instruction touches: the indices its handler uses into         *)
(* cpu->registers and cpu->address_registers and into ram->cells, in the   *)
(* order of the handler's code (an index is used only on the paths that    *)
(* get past the checks in front of the use).                               *)
(***************************************************************************)
\* Fault for C28: the word at pc + skip read without the test against RAM_SIZE
Fetch_Unchecked(c, skip) == { U32(Plus(c.pc, N(skip))) }

\* get_value_in_ram(ram, cpu, skip): the indices into ram->cells it reads
Fetch(c, skip) ==
    LET idx == U32(Plus(c.pc, N(skip)))
    IN IF LessEq(N(RAM_SIZE), idx) THEN { } ELSE { idx }

\* the opcode fetch of cpu_run and the handler's n operand fetches
Fetches(c, n) == UNION { Fetch(c, k) : k \in 0..n }

Touches(regs, aregs, cells) == [registers |-> regs, address_registers |-> aregs, cells |-> cells]

\* handle_loadm_execution and handle_storem_execution: the register index r,
\* the mode and the address operand
TransferAccess(c, r, mode, operand) ==
    IF ~is_reg_index_valid_runtime(r) THEN Touches({ }, { }, Fetches(c, 3))
    ELSE IF mode = N(ADDR_LITERAL)
    THEN IF ~is_addr_literal_valid_runtime(operand)
              \/ ~is_memory_access_valid_runtime(operand, N(1))
         THEN Touches({ }, { }, Fetches(c, 3))
         ELSE Touches({ r }, { }, Fetches(c, 3) \cup { operand })
    ELSE IF ~is_addr_index_valid_runtime(operand) THEN Touches({ }, { }, Fetches(c, 3))
    ELSE IF ~is_memory_access_valid_runtime(c.address_registers[Val(operand)], N(1))
    THEN Touches({ }, { operand }, Fetches(c, 3))
    ELSE Touches({ r }, { operand },
                 Fetches(c, 3) \cup { c.address_registers[Val(operand)] })

\* handle_add_execution and the six handlers like it
ArithAccess(c, dst_index, mode, operand) ==
    IF ~is_reg_index_valid_runtime(dst_index) THEN Touches({ }, { }, Fetches(c, 3))
    ELSE IF mode = N(OPERAND_REGISTER)
    THEN IF ~is_reg_index_valid_runtime(operand) THEN Touches({ }, { }, Fetches(c, 3))
         ELSE Touches({ operand, dst_index }, { }, Fetches(c, 3))
    ELSE IF mode = N(OPERAND_NUMERIC) THEN Touches({ dst_index }, { }, Fetches(c, 3))
    ELSE Touches({ }, { }, Fetches(c, 3))

\* the indices used by one turn of cpu_run's loop on Memory cells and CPU c
Access(cells, c) ==
    LET instruction == get_value_in_ram(cells, c, 0)
        w1 == get_value_in_ram(cells, c, 1)
        w2 == get_value_in_ram(cells, c, 2)
        w3 == get_value_in_ram(cells, c, 3)
    IN CASE instruction = N(ISA_LOADI) ->
              Touches(IF is_reg_index_valid_runtime(w1) THEN { w1 } ELSE { }, { },
                      Fetches(c, 2))
         [] instruction = N(ISA_LOADA) ->
              Touches({ },
                      IF is_addr_index_valid_runtime(w1) /\ is_addr_literal_valid_runtime(w2)
                      THEN { w1 } ELSE { },
                      Fetches(c, 2))
         [] instruction = N(ISA_LOADM) -> TransferAccess(c, w1, w2, w3)
         [] instruction = N(ISA_STOREM) -> TransferAccess(c, w3, w2, w1)
         [] instruction \in { N(o) : o \in ArithOpcodes } -> ArithAccess(c, w1, w2, w3)
         [] instruction \in { N(ISA_JMP), N(ISA_JZ), N(ISA_JNZ) } ->
              Touches({ }, { }, Fetches(c, 1))
         [] instruction = N(ISA_CMP) ->
              Touches(IF is_reg_index_valid_runtime(w1) /\ is_reg_index_valid_runtime(w2)
                      THEN { w1, w2 } ELSE { },
                      { }, Fetches(c, 2))
         [] OTHER -> Touches({ }, { }, Fetches(c, 0))

\* what the instruction executed last touched
LastAccess == Access(last.ram, last.cpu)

\* the cells of Memory, the registers and the address registers that the
\* instruction executed last changed
CellsChanged ==
    { N(a) : a \in { b \in (DOMAIN ram) \cup (DOMAIN last.ram) :
                        Cell(ram, b) # Cell(last.ram, b) } }

RegistersChanged == { N(k) : k \in { j \in RegIndex : cpu.registers[j] # last.cpu.registers[j] } }

AddressRegistersChanged ==
    { N(k) : k \in { j \in AddrIndex :
                        cpu.address_registers[j] # last.cpu.address_registers[j] } }

\* C28: whatever Memory holds and whatever the range is, every index an
\* instruction uses into the registers and into the address registers is
\* below 8 and every cell of Memory it reads or writes (opcode, operands,
\* LOADM's source, STOREM's destination) is below 65536; it changes no
\* register, address register or cell but those it so uses.
C28_IndicesInBounds ==
    Stepped =>
        /\ \A r \in LastAccess.registers : Less(r, N(MAX_REGISTERS))
        /\ \A x \in LastAccess.address_registers : Less(x, N(MAX_ADDRESS_REGISTERS))
        /\ \A a \in LastAccess.cells : Less(a, N(RAM_SIZE))
        /\ RegistersChanged \subseteq LastAccess.registers
        /\ AddressRegistersChanged \subseteq LastAccess.address_registers
        /\ CellsChanged \subseteq LastAccess.cells
        /\ DOMAIN ram \subseteq 0..(RAM_SIZE - 1)

\* a STOREM at the top of Memory whose fourth word would be cell 65536: the
\* register index read for it is 0 and nothing outside Memory is touched
C28_Witness ==
    /\ Stepped
    /\ LastIs(ISA_STOREM)
    /\ last.cpu.pc = N(RAM_SIZE - 3)
    /\ last.ret
    /\ LastAccess.registers = { N(0) }
    /\ LastAccess.cells = { N(RAM_SIZE - 3), N(RAM_SIZE - 2), N(RAM_SIZE - 1), N(32) }
    /\ CellsChanged # { }


\* the addresses at which pass 2 emitted the first word of an instruction
InstructionStarts == { at2[k] : k \in InstructionLines }

\* C29: in the run of an assembled program, after every instruction that
\* executed successfully the program counter is the address of the first
\* word of an instruction the assembler emitted, or the end address of the
\* range; it lies in [start, end] and is at most 65535.
C29_PcOnInstruction ==
    (phase \in { "run", "returned" } /\ Stepped /\ last.ret) =>
        /\ cpu.pc \in InstructionStarts \cup { range.end_address }
        /\ LessEq(range.start_address, cpu.pc)
        /\ LessEq(cpu.pc, range.end_address)
        /\ LessEq(cpu.pc, N(RAM_SIZE - 1))


\* the instruction executed last had its opcode in Memory and an operand
\* word at address 65536 or beyond
LastOperandOutside ==
    /\ Stepped
    /\ Less(last.cpu.pc, N(RAM_SIZE))
    /\ \E o \in KnownOpcodes :
           /\ LastIs(o)
           /\ LessEq(N(RAM_SIZE), Plus(last.cpu.pc, N(WordCount(o) - 1)))

\* C30: an instruction whose opcode is in Memory and one of whose operand
\* words would lie at address 65536 or beyond is not executed: cpu_run
\* returns false and the registers, the address registers, the flags and
\* Memory are as they were before it.
C30_OperandFetchChecked ==
    LastOperandOutside =>
        /\ ~last.ret
        /\ phase = "returned"
        /\ result = "false"
        /\ cpu.registers = last.cpu.registers
        /\ cpu.address_registers = last.cpu.address_registers
        /\ cpu.zero_flag = last.cpu.zero_flag
        /\ cpu.negative_flag = last.cpu.negative_flag
        /\ ram = last.ram

\* C31: after pass 1 of a successful assembly no two entries of the label
\* table carry the same name.
C31_LabelNamesUnique ==
    phase = "assembled" =>
        \A a \in 1..Len(labels), b \in 1..Len(labels) :
            a # b => labels[a].name # labels[b].name

\* the LOADA executed last names no address register or a literal outside
\* Memory
LastLoadaRejected ==
    /\ Stepped
    /\ LastIs(ISA_LOADA)
    /\ NoAddressRegister(LastWord(1)) \/ OutsideMemory(LastWord(2))

\* C32: every address register holds a value in [0, 65536) after every
\* instruction; a LOADA whose literal is 65536 or more or whose index is 8 or
\* more makes cpu_run return false and writes no address register; an
\* instruction other than LOADA writes no address register.
C32_AddressRegistersInMemory ==
    /\ \A k \in AddrIndex : Less(cpu.address_registers[k], N(RAM_SIZE))
    /\ LastLoadaRejected =>
           /\ ~last.ret
           /\ phase = "returned"
           /\ result = "false"
           /\ cpu.address_registers = last.cpu.address_registers
    /\ (Stepped /\ ~LastIs(ISA_LOADA)) =>
           cpu.address_registers = last.cpu.address_registers

\* LOADA A0,65536 was refused, A1 still points at cell 33
C32_Witness ==
    /\ LastLoadaRejected
    /\ LastWord(1) = N(0)
    /\ LastWord(2) = N(RAM_SIZE)
    /\ result = "false"
    /\ cpu.address_registers[1] = N(33)

(***************************************************************************)
(* cpu_init and cpu_free (src/src/cpu.c), applied to a CPU in any state.   *)
(***************************************************************************)
\* Fault for C33: a reset that leaves the negative flag as it finds it
cpu_free_KeepsNegative(c) == [cpu_init EXCEPT !.negative_flag = c.negative_flag]

\* void cpu_free(CPU *cpu): cpu_init(cpu);
cpu_free(c) == cpu_init

\* the states the CPU is found in
PriorStates ==
    { [pc |-> p,
       address_registers |-> [k \in AddrIndex |-> IF k = 1 THEN a ELSE N(0)],
       registers |-> [g \in RegIndex |-> r],
       running |-> run,
       zero_flag |-> z,
       negative_flag |-> n] :
        p \in { N(0), N(5), MaxWord }, a \in { N(0), N(33) }, r \in RegVals,
        run \in BOOLEAN, z \in BOOLEAN, n \in BOOLEAN }

resetFrame ==
    << lines, phase, i, pc_cursor, start_set, labels, range, ram, result, at1,
       at2, lock, callers, written, earlier >>

\* cpu_init(&cpu); last keeps the CPU it found
CpuInit ==
    /\ phase = "cpu"
    /\ cpu' = cpu_init
    /\ last' = [NoLast EXCEPT !.cpu = cpu]
    /\ call' = [NoCall EXCEPT !.op = "cpu_init"]
    /\ UNCHANGED resetFrame

\* cpu_free(&cpu);
CpuFree ==
    /\ phase = "cpu"
    /\ cpu' = cpu_free(cpu)
    /\ last' = [NoLast EXCEPT !.cpu = cpu]
    /\ call' = [NoCall EXCEPT !.op = "cpu_free"]
    /\ UNCHANGED resetFrame

NextReset == CpuInit \/ CpuFree

InitReset ==
    /\ lines = << >>
    /\ phase = "cpu"
    /\ i = 0
    /\ pc_cursor = N(0)
    /\ start_set = FALSE
    /\ labels = << >>
    /\ range = initialize_assembly
    /\ cpu \in PriorStates
    /\ ram = ram_init
    /\ result = "none"
    /\ at1 = << >>
    /\ at2 = << >>
    /\ last = NoLast
    /\ earlier = << >>
    /\ OnlyTheEngine

SpecReset == InitReset /\ [][NextReset]_vars

\* cpu_init or cpu_free has been applied
Reset == call.op \in { "cpu_init", "cpu_free" }

\* the state cpu.c documents: pc 0, registers cleared, nothing set
Cleared(c) ==
    /\ c.pc = N(0)
    /\ DOMAIN c.registers = 0..7
    /\ DOMAIN c.address_registers = 0..7
    /\ \A g \in 0..7 : c.registers[g] = N(0)
    /\ \A a \in 0..7 : c.address_registers[a] = N(0)
    /\ ~c.zero_flag
    /\ ~c.negative_flag
    /\ ~c.running

\* C33: from any state of the CPU both cpu_init and cpu_free leave the
\* program counter 0, the 8 general and the 8 address registers 0, both
\* flags false and running false; applied to that state they change nothing.
C33_InitAndReset ==
    Reset =>
        /\ Cleared(cpu)
        /\ Cleared(last.cpu) => cpu = last.cpu

\* cpu_free found a running CPU with the program counter at 0xFFFFFFFF, the
\* negative flag set and A1 = 33
C33_Witness ==
    /\ call.op = "cpu_free"
    /\ last.cpu.pc = MaxWord
    /\ last.cpu.running
    /\ last.cpu.negative_flag
    /\ last.cpu.address_registers[1] = N(33)
    /\ cpu.pc = N(0)
    /\ ~cpu.negative_flag

\* cpu_init applied to the state cpu_free left
C33_Again ==
    /\ call.op = "cpu_init"
    /\ last.cpu = cpu
    /\ ~cpu.running

\* C34: every word the assembler emits lands on a cell of Memory, whatever
\* the source: no cell at an index of 65536 or more is ever written.
C34_EmitsInsideMemory ==
    \A a \in DOMAIN ram : a \in 0..(RAM_SIZE - 1)

\* C35: when a source has assembled, for each of its instruction lines the
\* cursor of pass 1 on reaching the line is the program counter at which
\* pass 2 emits the line's first word.
C35_PassesWalkTogether ==
    phase = "assembled" =>
        \A k \in InstructionLines : at1[k] = at2[k]

\* C36: when the instruction executed last made cpu_run return false, the
\* program counter, the general registers, the address registers, both flags
\* and every cell of Memory are as they were before it was fetched; only
\* running may differ.
C36_FailureIsAtomic ==
    (Stepped /\ ~last.ret) =>
        /\ cpu.pc = last.cpu.pc
        /\ cpu.registers = last.cpu.registers
        /\ cpu.address_registers = last.cpu.address_registers
        /\ cpu.zero_flag = last.cpu.zero_flag
        /\ cpu.negative_flag = last.cpu.negative_flag
        /\ ram = last.ram

\* JMP 65536 and DIV R0,R1 with R1 = 0 failed with the negative flag set
\* beforehand
C36_Witness ==
    /\ Stepped
    /\ ~last.ret
    /\ \/ LastIs(ISA_JMP) /\ LastWord(1) = N(RAM_SIZE)
       \/ /\ LastIs(ISA_DIV)
          /\ LastWord(2) = N(OPERAND_REGISTER)
          /\ LastWord(3) = N(1)
          /\ last.cpu.registers[1] = N(0)
    /\ last.cpu.negative_flag
    /\ last.cpu.running
    /\ ~cpu.running
    /\ cpu.pc = last.cpu.pc

\* LOADM R0,(0x10000) failed
C36_BadLiteral ==
    /\ Stepped
    /\ ~last.ret
    /\ LastIs(ISA_LOADM)
    /\ LastWord(1) = N(0)
    /\ LastWord(2) = N(ADDR_LITERAL)
    /\ LastWord(3) = N(RAM_SIZE)

(***************************************************************************)
(* cpu_run on two instructions in a row, with an end address on, inside or *)
(* behind them.  cpu_run is one sequential loop that goes on until it      *)
(* returns: weak fairness of NextRun.                                      *)
(***************************************************************************)
\* the instruction at the start address, one per opcode
Firsts ==
    { << N(ISA_LOADI), N(0), N(5) >>, << N(ISA_LOADA), N(0), N(0) >>,
      << N(ISA_LOADM), N(0), N(ADDR_LITERAL), N(32) >>,
      << N(ISA_STOREM), N(32), N(ADDR_LITERAL), N(0) >>,
      << N(ISA_CMP), N(0), N(1) >>, << N(ISA_HALT) >>, << N(0) >> }
    \cup { << N(o), N(0), N(OPERAND_NUMERIC), N(1) >> : o \in ArithOpcodes }
    \cup { << N(ISA_JMP), N(0) >>, << N(ISA_JZ), N(6) >>, << N(ISA_JNZ), N(6) >> }

\* what follows it
Seconds == { << >>, << N(ISA_HALT) >>, << N(ISA_LOADI), N(1), N(0) >> }

InitStraight ==
    \E first \in Firsts, second \in Seconds, s \in StartAddresses :
     \E e \in { 1, Len(first), Len(first) + 1, Len(first) + Len(second) } :
        /\ lines = << >>
        /\ phase = "assembled"
        /\ i = 0
        /\ pc_cursor = N(0)
        /\ start_set = FALSE
        /\ labels = << >>
        /\ earlier = << >>
        /\ at1 = << >>
        /\ at2 = << >>
        /\ range = [start_address |-> N(s), end_address |-> N(s + e), error |-> FALSE]
        /\ cpu = [cpu_init EXCEPT !.registers[0] = N(5),
                                  !.registers[1] = N(1),
                                  !.address_registers[1] = N(33)]
        /\ ram = Overlay(DataCells, Place(s, first \o second))
        /\ result = "none"
        /\ last = NoLast
        /\ OnlyTheEngine

\* NextRun can change nothing: cpu_run has returned, or the instruction at
\* the program counter succeeds and leaves the CPU and Memory as they are,
\* as it did the time before
AtRest ==
    \/ phase = "returned"
    \/ /\ phase = "run"
       /\ LoopCondition
       /\ last = [op |-> Fetched, cpu |-> cpu, ram |-> ram, ret |-> TRUE]
       /\ \A build \in SignedOverflowBuilds :
              Execute(ram, cpu, build) = Done(ram, cpu)

\* WF_vars(NextRun), which is
\*     []<>(~ENABLED <<NextRun>>_vars) \/ []<><<NextRun>>_vars,
\* with the enabling condition written as the state predicate ~AtRest
SpecStraight == InitStraight /\ [][NextRun]_vars /\ ([]<>AtRest \/ []<><<NextRun>>_vars)

\* the instruction executed last is a JMP, JZ or JNZ
JumpExecuted ==
    Stepped /\ (LastIs(ISA_JMP) \/ LastIs(ISA_JZ) \/ LastIs(ISA_JNZ))

\* C37: a run of cpu_run that executes no JMP, JZ or JNZ returns after
\* finitely many instructions, whatever Memory holds and wherever the start
\* and the end address lie.
C37_StraightLineTerminates == <>(phase = "returned" \/ JumpExecuted)

\* LOADI R0,#5 at 0 with the end address 1: the program counter went from 0
\* to 3 over the end address, and the run ended on the word it found there
C37_Witness ==
    /\ phase = "returned"
    /\ range.start_address = N(0)
    /\ range.end_address = N(1)
    /\ Less(range.end_address, cpu.pc)
    /\ Stepped
    /\ ~JumpExecuted

\* the run returned true on reaching the end address 65536
C37_EndBehindMemory ==
    /\ phase = "returned"
    /\ result = "true"
    /\ cpu.pc = N(RAM_SIZE)
    /\ cpu.running

\* the opcodes whose handlers assign neither flag
FlagKeepers == { ISA_LOADA, ISA_STOREM, ISA_JMP, ISA_JZ, ISA_JNZ, ISA_HALT }

\* C38: an instruction other than CMP, whether it succeeds or fails, leaves
\* the negative flag as it was; LOADA, STOREM, JMP, JZ, JNZ and HALT leave
\* the zero flag as it was too.
C38_NegativeFlagOnlyByCmp ==
    Stepped =>
        /\ ~LastIs(ISA_CMP) => cpu.negative_flag = last.cpu.negative_flag
        /\ (\E o \in FlagKeepers : LastIs(o)) =>
               cpu.zero_flag = last.cpu.zero_flag

\* SUB R0,#1 with R0 = 0 left 0xFFFFFFFF in R0 and the negative flag clear
C38_Witness ==
    /\ Stepped
    /\ LastIs(ISA_SUB)
    /\ last.ret
    /\ last.cpu.registers[0] = N(0)
    /\ cpu.registers[0] = MaxWord
    /\ ~last.cpu.negative_flag
    /\ ~cpu.negative_flag

\* LOADA A0,0 succeeded with the negative flag set beforehand
C38_SetStaysSet ==
    /\ Stepped
    /\ LastIs(ISA_LOADA)
    /\ last.ret
    /\ last.cpu.negative_flag
    /\ cpu.negative_flag

\* word j of the words pass 2 emits for line k
EmittedWord(k, j) == Cell(EmittedFor(k), Val(at2[k]) + j)

\* the words emitted for line k pass the interpreter's tests of register
\* indices, address-register indices, mode tags and literal addresses
EmittedWordsValid(k) ==
    LET o == get_opcode(lines[k].mn)
        w1 == EmittedWord(k, 1)
        w2 == EmittedWord(k, 2)
        w3 == EmittedWord(k, 3)
    IN CASE o = ISA_LOADI -> is_reg_index_valid_runtime(w1)
         [] o = ISA_LOADA ->
                is_addr_index_valid_runtime(w1) /\ is_addr_literal_valid_runtime(w2)
         [] o = ISA_LOADM ->
                /\ is_reg_index_valid_runtime(w1)
                /\ w2 \in { N(ADDR_REGISTER), N(ADDR_LITERAL) }
                /\ IF w2 = N(ADDR_LITERAL) THEN is_addr_literal_valid_runtime(w3)
                   ELSE is_addr_index_valid_runtime(w3)
         [] o = ISA_STOREM ->
                /\ is_reg_index_valid_runtime(w3)
                /\ w2 \in { N(ADDR_REGISTER), N(ADDR_LITERAL) }
                /\ IF w2 = N(ADDR_LITERAL) THEN is_addr_literal_valid_runtime(w1)
                   ELSE is_addr_index_valid_runtime(w1)
         [] o \in ArithOpcodes ->
                /\ is_reg_index_valid_runtime(w1)
                /\ w2 \in { N(OPERAND_REGISTER), N(OPERAND_NUMERIC) }
                /\ w2 = N(OPERAND_REGISTER) => is_reg_index_valid_runtime(w3)
         [] o = ISA_CMP ->
                is_reg_index_valid_runtime(w1) /\ is_reg_index_valid_runtime(w2)
         [] OTHER -> TRUE

\* the instruction executed last was refused for a register index, an
\* address-register index, a mode tag or a literal address
LastBadIndexOrMode ==
    \/ LastBadRegisterWord
    \/ LastIs(ISA_LOADA) /\ (NoAddressRegister(LastWord(1)) \/ OutsideMemory(LastWord(2)))
    \/ /\ LastIs(ISA_LOADM)
       /\ IF LastWord(2) = N(ADDR_LITERAL) THEN OutsideMemory(LastWord(3))
          ELSE NoAddressRegister(LastWord(3)) \/ LastWord(2) # N(ADDR_REGISTER)
    \/ /\ LastIs(ISA_STOREM)
       /\ IF LastWord(2) = N(ADDR_LITERAL) THEN OutsideMemory(LastWord(1))
          ELSE NoAddressRegister(LastWord(1)) \/ LastWord(2) # N(ADDR_REGISTER)
    \/ LastIsArith /\ LastWord(2) \notin { N(OPERAND_REGISTER), N(OPERAND_NUMERIC) }

\* C39: in a source that has assembled, the words emitted for every line
\* hold register and address-register indices below 8, mode tags 0 or 1 and
\* literal addresses below 65536, and the interpreter, executing the words
\* of a line, refuses none of them.
C39_AcceptedIsExecutable ==
    /\ phase = "assembled" => \A k \in InstructionLines : EmittedWordsValid(k)
    /\ \A k \in 1..Len(lines) : LastWasLine(k) => ~LastBadIndexOrMode

\* LOADM R7,(0xFFFF) was assembled and executed
C39_Witness ==
    /\ LastWasLine(1)
    /\ lines[1].mn = "LOADM"
    /\ LastWord(1) = N(7)
    /\ LastWord(2) = N(ADDR_LITERAL)
    /\ LastWord(3) = N(RAM_SIZE - 1)
    /\ last.ret

\* LOADI R8,#1 was refused by the assembler
C39_Refused ==
    /\ phase = "failed"
    /\ Len(lines) = 2
    /\ lines[1].mn = "LOADI"
    /\ lines[1].op1 = R(8)
    /\ range.error

=============================================================================
